---- MODULE Spec2Model ----
(***************************************************************************)
(* Model of the tutor asset build pipeline (sync_from_fiae_tutor_core):    *)
(* the variant merger, the three asset builders and the pipeline driver.   *)
(*                                                                         *)
(* Representation.                                                         *)
(*  - A JavaScript string that the code trims or compares is a sequence of *)
(*    one-character strings, so that trim() and localeCompare() are        *)
(*    computed on it.                                                      *)
(*  - A JSON scalar is a record [t, s, b]: its typeof tag, its string      *)
(*    value and its truthiness.                                            *)
(*  - A file or directory name is the sequence of its dot-separated        *)
(*    components: `${topic}.${lang}.${mode}.json` is topic \o <<lang,      *)
(*    mode, "json">>.                                                      *)
(***************************************************************************)
EXTENDS Integers, Sequences, FiniteSets, TLC

VARIABLES
    pc,                  \* position of the running script
    lang,                \* language of the current loop iteration / call
    variantsDe,          \* parsed variants.de.v1.json (or [])
    variantsFa,          \* parsed variants.fa.v1.json (or [])
    mergedVariants,      \* result of mergeVariantRecords
    topicFallbackPseudo, \* result of readTopicPseudocodeFallback
    explainDoc,          \* parsed explain.<lang>.v1.json or null
    examDoc,             \* parsed exam.<lang>.v1.json or null
    payload,             \* the asset a builder returned last
    sourceTree,          \* the authoring repository, per topic directory
    runDir,              \* the output directory: exists flag and its files
    topics,              \* sorted topic directory names of the run
    topicIdx,            \* index of the current topic in topics
    writtenFiles,        \* names of the files written by the run
    includedTopics,      \* topics with at least one asset
    skipped,             \* skip report
    runs,                \* number of completed runs
    history,             \* observations used to state the properties
    topicsJson,          \* assets/tutor-data/topics.json, the generated index
    env,                 \* the worker's bindings: ADAPTER_TOKEN and ASSETS
    request,             \* the request handleRequest was called with
    response,            \* the response it returned
    fetched              \* the asset paths it fetched from env.ASSETS

vars == <<pc, lang, variantsDe, variantsFa, mergedVariants, topicFallbackPseudo,
          explainDoc, examDoc, payload, sourceTree, runDir, topics, topicIdx,
          writtenFiles, includedTopics, skipped, runs, history, topicsJson, env,
          request, response, fetched>>

(***************************************************************************)
(* Strings                                                                 *)
(***************************************************************************)
\* the collation order of the characters that occur in the model
Alphabet == <<" ", "a", "b", "c", "u", "v", "x", "y", "z">>

CharRank(c) == CHOOSE i \in 1..Len(Alphabet) : Alphabet[i] = c

IsSpace(c) == c \in {" ", "\n", "\t", "\r"}

RECURSIVE trimStart(_)
trimStart(s) == IF s # <<>> /\ IsSpace(Head(s)) THEN trimStart(Tail(s)) ELSE s

RECURSIVE trimEnd(_)
trimEnd(s) ==
    IF s # <<>> /\ IsSpace(s[Len(s)]) THEN trimEnd(SubSeq(s, 1, Len(s) - 1)) ELSE s

\* String.prototype.trim
trim(s) == trimEnd(trimStart(s))

\* a.localeCompare(b) on character sequences: -1, 0 or 1
RECURSIVE localeCompare(_, _)
localeCompare(a, b) ==
    IF a = <<>> /\ b = <<>> THEN 0
    ELSE IF a = <<>> THEN -1
    ELSE IF b = <<>> THEN 1
    ELSE IF CharRank(Head(a)) < CharRank(Head(b)) THEN -1
    ELSE IF CharRank(Head(a)) > CharRank(Head(b)) THEN 1
    ELSE localeCompare(Tail(a), Tail(b))

(***************************************************************************)
(* JSON values                                                             *)
(***************************************************************************)
JStr(s) == [t |-> "string", s |-> s, b |-> s # <<>>]
JBool(b) == [t |-> "boolean", s |-> <<>>, b |-> b]
JNum(nonzero) == [t |-> "number", s |-> <<>>, b |-> nonzero]
Undefined == [t |-> "undefined", s |-> <<>>, b |-> FALSE]

\* { de, fa } sub-object of a variant (pseudocode, explain) or a non-object
Loc(de, fa) == [t |-> "object", de |-> de, fa |-> fa]
NoLoc == [t |-> "undefined", de |-> Undefined, fa |-> Undefined]

\* an element of a variants array: an object, or null / a scalar
Variant(id, label, dflt, pseudo, explain) ==
    [t |-> "object", id |-> id, label |-> label, is_default |-> dflt,
     pseudocode |-> pseudo, explain |-> explain]
NullItem ==
    [t |-> "null", id |-> Undefined, label |-> Undefined, is_default |-> Undefined,
     pseudocode |-> NoLoc, explain |-> NoLoc]
NumberItem == [NullItem EXCEPT !.t = "number"]

\* a parsed JSON document that is an array, and one that is not
JArray(items) == [t |-> "array", items |-> items]
JNotArray == [t |-> "object", items |-> <<>>]

\* Array.isArray(v) ? v : []
arrayOrEmpty(v) == IF v.t = "array" THEN v.items ELSE <<>>

RECURSIVE firstNonEmptyString(_)
firstNonEmptyString(values) ==
    IF values = <<>> THEN <<>>
    ELSE IF Head(values).t = "string" /\ trim(Head(values).s) # <<>>
         THEN trim(Head(values).s)
         ELSE firstNonEmptyString(Tail(values))

extractLocalizedText(value) ==
    IF value.t # "object" THEN [de |-> <<>>, fa |-> <<>>]
    ELSE [de |-> IF value.de.t = "string" THEN value.de.s ELSE <<>>,
          fa |-> IF value.fa.t = "string" THEN value.fa.s ELSE <<>>]

extractPseudocode(value) ==
    IF value.t # "object" THEN [de |-> <<>>, fa |-> <<>>]
    ELSE [de |-> IF value.de.t = "string" THEN value.de.s ELSE <<>>,
          fa |-> IF value.fa.t = "string" THEN value.fa.s ELSE <<>>]

(***************************************************************************)
(* Variant merger                                                          *)
(***************************************************************************)
EmptyMap == [k \in {} |-> NullItem]

\* usableId without the trim of the id it returns
usableId_Untrimmed(item) ==
    IF item.id.t = "string" /\ trim(item.id.s) # <<>> THEN item.id.s ELSE <<>>

\* item.id when it is a string with a non-blank trim, else ""
usableId(item) ==
    IF item.id.t = "string" /\ trim(item.id.s) # <<>> THEN trim(item.id.s) ELSE <<>>

\* setSlot that keeps the item a slot already holds
setSlot_KeepFirst(entry, lg, item) ==
    IF lg = "de"
    THEN (IF entry.de.t = "object" THEN entry ELSE [entry EXCEPT !.de = item])
    ELSE (IF entry.fa.t = "object" THEN entry ELSE [entry EXCEPT !.fa = item])

\* entry[lang] = item
setSlot(entry, lg, item) ==
    IF lg = "de" THEN [entry EXCEPT !.de = item] ELSE [entry EXCEPT !.fa = item]

RECURSIVE ingest(_, _, _)
ingest(items, lg, acc) ==
    IF items = <<>> THEN acc
    ELSE LET item == Head(items)
             id == usableId(item)
         IN  IF item.t # "object" \/ id = <<>>
             THEN ingest(Tail(items), lg, acc)
             ELSE LET acc1 == IF id \in DOMAIN acc.byId
                              THEN acc
                              ELSE [order |-> Append(acc.order, id),
                                    byId |-> acc.byId @@
                                      (id :> [id |-> id, de |-> NullItem, fa |-> NullItem])]
                      acc2 == [acc1 EXCEPT !.byId[id] = setSlot(@, lg, item)]
                  IN  ingest(Tail(items), lg, acc2)

\* mergeVariantRecords that scans the fa list before the de list
mergeVariantRecords_FaFirst(vDe, vFa) ==
    LET a1 == ingest(arrayOrEmpty(vFa), "fa", [order |-> <<>>, byId |-> EmptyMap])
        a2 == ingest(arrayOrEmpty(vDe), "de", a1)
    IN  [i \in 1..Len(a2.order) |-> a2.byId[a2.order[i]]]

mergeVariantRecords(vDe, vFa) ==
    LET a1 == ingest(arrayOrEmpty(vDe), "de", [order |-> <<>>, byId |-> EmptyMap])
        a2 == ingest(arrayOrEmpty(vFa), "fa", a1)
    IN  [i \in 1..Len(a2.order) |-> a2.byId[a2.order[i]]]

(***************************************************************************)
(* Pseudocode asset builder                                                *)
(***************************************************************************)
\* lang.toLowerCase() on the language tags the script uses
toLowerCase(lg) == CASE lg = "DE" -> "de" [] lg = "FA" -> "fa" [] OTHER -> lg

NullPayload == [schema_name |-> "null"]

DefaultId == <<"d", "e", "f", "a", "u", "l", "t">>
DefaultLabelDe == <<"D", "e", "f", "a", "u", "l", "t">>
\* the Persian label of the synthesized variant, one element per code point
DefaultLabelFa == <<"U+067E", "U+06CC", "U+0634", "U+200C", "U+0641", "U+0631", "U+0636">>

\* record?.de && typeof record.de === "object" ? record.de : null
objectOrNull(item) == IF item.t = "object" THEN item ELSE NullItem

\* the candidates of one language, in the order the code lists them
pseudocodeByLang(deItem, faItem, fallbackPseudo) ==
    LET pseudoFromDe == extractPseudocode(deItem.pseudocode)
        pseudoFromFa == extractPseudocode(faItem.pseudocode)
    IN  [de |-> firstNonEmptyString(<<JStr(pseudoFromDe.de), JStr(pseudoFromFa.de),
                                      JStr(fallbackPseudo.de), JStr(fallbackPseudo.fa)>>),
         fa |-> firstNonEmptyString(<<JStr(pseudoFromDe.fa), JStr(pseudoFromFa.fa),
                                      JStr(fallbackPseudo.fa), JStr(fallbackPseudo.de)>>)]

preferredPseudo(byLang, normalizedLang) ==
    IF normalizedLang = "fa"
    THEN firstNonEmptyString(<<JStr(byLang.fa), JStr(byLang.de)>>)
    ELSE firstNonEmptyString(<<JStr(byLang.de), JStr(byLang.fa)>>)

\* the body of the loop over mergedVariants: the entries pushed for one record
variantEntry(record, normalizedLang, fallbackPseudo) ==
    LET deItem == objectOrNull(record.de)
        faItem == objectOrNull(record.fa)
        id == record.id
        labels == [de |-> firstNonEmptyString(<<deItem.label, faItem.label, JStr(id)>>),
                   fa |-> firstNonEmptyString(<<faItem.label, deItem.label, JStr(id)>>)]
        explainFromDe == extractLocalizedText(deItem.explain)
        explainFromFa == extractLocalizedText(faItem.explain)
        explainVariant ==
            [de |-> firstNonEmptyString(<<JStr(explainFromDe.de), JStr(explainFromFa.de)>>),
             fa |-> firstNonEmptyString(<<JStr(explainFromDe.fa), JStr(explainFromFa.fa)>>)]
        preferred == preferredPseudo(pseudocodeByLang(deItem, faItem, fallbackPseudo),
                                     normalizedLang)
    IN  IF id = <<>> \/ preferred = <<>>
        THEN <<>>
        ELSE << [id |-> id,
                 title |-> IF normalizedLang = "fa" THEN labels.fa ELSE labels.de,
                 labels |-> labels,
                 is_default |-> deItem.is_default.b \/ faItem.is_default.b,
                 pseudocode |-> preferred,
                 explain_variant |-> explainVariant] >>

RECURSIVE variantEntriesOf(_, _, _)
variantEntriesOf(merged, normalizedLang, fallbackPseudo) ==
    IF merged = <<>> THEN <<>>
    ELSE variantEntry(Head(merged), normalizedLang, fallbackPseudo)
         \o variantEntriesOf(Tail(merged), normalizedLang, fallbackPseudo)

\* selectedVariant that ignores is_default
selectedVariant_First(variantEntries) == variantEntries[1]

\* variantEntries.find((item) => item.is_default) ?? variantEntries[0]
selectedVariant(variantEntries) ==
    IF \E i \in 1..Len(variantEntries) : variantEntries[i].is_default
    THEN variantEntries[CHOOSE i \in 1..Len(variantEntries) :
            /\ variantEntries[i].is_default
            /\ \A j \in 1..(i - 1) : ~variantEntries[j].is_default]
    ELSE variantEntries[1]

\* fallbackText that prefers the German extractor result for every language
fallbackText_DeFirst(normalizedLang, fallbackPseudo) ==
    firstNonEmptyString(<<JStr(fallbackPseudo.de), JStr(fallbackPseudo.fa)>>)

\* the text of the synthesized variant: target language first, then the other
fallbackText(normalizedLang, fallbackPseudo) ==
    IF normalizedLang = "fa"
    THEN firstNonEmptyString(<<JStr(fallbackPseudo.fa), JStr(fallbackPseudo.de)>>)
    ELSE firstNonEmptyString(<<JStr(fallbackPseudo.de), JStr(fallbackPseudo.fa)>>)

buildPseudocodeAsset(topic, lg, title, merged, fallbackPseudo) ==
    LET normalizedLang == toLowerCase(lg)
        fromRecords == variantEntriesOf(merged, normalizedLang, fallbackPseudo)
        fallback == fallbackText(normalizedLang, fallbackPseudo)
        variantEntries ==
            IF Len(fromRecords) = 0
            THEN << [id |-> DefaultId,
                     title |-> DefaultLabelDe,
                     labels |-> [de |-> DefaultLabelDe, fa |-> DefaultLabelFa],
                     is_default |-> TRUE,
                     pseudocode |-> fallback,
                     explain_variant |-> [de |-> <<>>, fa |-> <<>>]] >>
            ELSE fromRecords
        selected == selectedVariant(variantEntries)
    IN  IF Len(fromRecords) = 0 /\ fallback = <<>>
        THEN NullPayload
        ELSE [schema_name |-> "tutor_asset.pseudocode.v1",
              version |-> "1.0",
              topic |-> topic,
              lang |-> normalizedLang,
              mode |-> "pseudocode",
              title |-> title,
              selected_variant |-> selected.id,
              pseudocode |-> selected.pseudocode,
              variants |-> variantEntries]

(***************************************************************************)
(* Explain asset builder                                                   *)
(***************************************************************************)
\* a section of an explain document; ref is the object's identity (its
\* position in explainDoc.sections), which Array.prototype.includes compares
Section(ref, id, format, body) ==
    [t |-> "object", ref |-> ref, id |-> id, format |-> format, body |-> body]
NullSection(ref) ==
    [t |-> "null", ref |-> ref, id |-> Undefined, format |-> Undefined, body |-> Undefined]

ExplainDoc(title, sections, sections_order, audience) ==
    [t |-> "object", title |-> title, sections |-> sections,
     sections_order |-> sections_order, audience |-> audience]
\* a document that parsed to a truthy non-object (a number, a string)
ScalarDoc ==
    [t |-> "number", title |-> Undefined, sections |-> JNotArray,
     sections_order |-> JNotArray, audience |-> Undefined]

DefinitionId == <<"d", "e", "f", "i", "n", "i", "t", "i", "o", "n">>
TextKind == <<"t", "e", "x", "t">>

isObject(v) == v.t = "object"
isString(v) == v.t = "string"

\* byId after the loop: the last section carrying the string id, when there is one
byIdGet(sections, id) ==
    LET hits == {i \in 1..Len(sections) :
                    sections[i].id.t = "string" /\ sections[i].id.s = id}
    IN  IF hits = {} THEN <<>>
        ELSE <<sections[CHOOSE i \in hits : \A j \in hits : j <= i]>>

RECURSIVE orderedByIds(_, _)
orderedByIds(sections, idOrder) ==
    IF idOrder = <<>> THEN <<>>
    ELSE byIdGet(sections, Head(idOrder).s) \o orderedByIds(sections, Tail(idOrder))

\* ordered.includes(section): identity of the section object
includes(ordered, section) == \E i \in 1..Len(ordered) : ordered[i].ref = section.ref

RECURSIVE appendMissing(_, _)
appendMissing(ordered, sections) ==
    IF sections = <<>> THEN ordered
    ELSE appendMissing(IF includes(ordered, Head(sections))
                       THEN ordered
                       ELSE Append(ordered, Head(sections)),
                       Tail(sections))

getExplainSectionsInOrder(doc) ==
    IF doc.sections.t # "array" THEN <<>>
    ELSE LET sections == SelectSeq(doc.sections.items, isObject)
             idOrder == IF doc.sections_order.t = "array"
                        THEN SelectSeq(doc.sections_order.items, isString)
                        ELSE <<>>
         IN  IF Len(idOrder) = 0 THEN sections
             ELSE appendMissing(orderedByIds(sections, idOrder), sections)

blockOf(section) ==
    [kind |-> IF section.id.t = "string" /\ trim(section.id.s) # <<>>
              THEN trim(section.id.s)
              ELSE IF section.format.t = "string" /\ trim(section.format.s) # <<>>
                   THEN trim(section.format.s)
                   ELSE TextKind,
     text |-> IF section.body.t = "string" THEN section.body.s ELSE <<>>]

\* hasText that keeps every block
hasText_Any(block) == TRUE

hasText(block) == trim(block.text) # <<>>

RECURSIVE mapBlocks(_)
mapBlocks(sections) ==
    IF sections = <<>> THEN <<>>
    ELSE <<blockOf(Head(sections))>> \o mapBlocks(Tail(sections))

\* isDefinition that compares the trimmed id
isDefinition_Trimmed(section) ==
    section.id.t = "string" /\ trim(section.id.s) = DefinitionId

\* section?.id === "definition"
isDefinition(section) == section.id.t = "string" /\ section.id.s = DefinitionId

buildExplainAsset(topic, lg, title, doc) ==
    LET sections == getExplainSectionsInOrder(doc)
        blocks == SelectSeq(mapBlocks(sections), hasText)
        defs == SelectSeq(sections, isDefinition)
        summary == firstNonEmptyString(
            << IF defs = <<>> THEN Undefined ELSE defs[1].body,
               IF blocks = <<>> THEN Undefined ELSE JStr(blocks[1].text),
               doc.audience >>)
    IN  [schema_name |-> "tutor_asset.explain.v1",
         version |-> "1.0",
         topic |-> topic,
         lang |-> lg,
         mode |-> "explain",
         title |-> title,
         summary |-> summary,
         blocks |-> blocks]

(***************************************************************************)
(* Exam asset builder                                                      *)
(***************************************************************************)
\* a raw question; choices is the length of its choices array, -1 without one
Question(id, task, prompt, answer, expected, solution, choices) ==
    [t |-> "object", id |-> id, task |-> task, prompt |-> prompt, answer |-> answer,
     expected |-> expected, solution |-> solution, choices |-> choices]
NullQuestion ==
    [t |-> "null", id |-> Undefined, task |-> Undefined, prompt |-> Undefined,
     answer |-> Undefined, expected |-> Undefined, solution |-> Undefined, choices |-> -1]

ExamDoc(questions) == [t |-> "object", questions |-> questions]
ScalarExamDoc == [t |-> "number", questions |-> JNotArray]

\* mapExamQuestion that fills the explanation of both languages
mapExamQuestion_BothLangs(question, lg) ==
    LET isMc == question.choices > 0
    IN  [id |-> firstNonEmptyString(<<question.id>>),
         type |-> IF isMc THEN "mc" ELSE "open",
         prompt |-> firstNonEmptyString(<<question.task, question.prompt>>),
         answer |-> firstNonEmptyString(
                        <<question.answer, question.expected, question.solution>>),
         explain_de |-> firstNonEmptyString(<<question.solution, question.expected>>),
         explain_fa |-> firstNonEmptyString(<<question.solution, question.expected>>),
         choices |-> IF isMc THEN question.choices ELSE -1]

mapExamQuestion(question, lg) ==
    LET isMc == question.choices > 0
    IN  [id |-> firstNonEmptyString(<<question.id>>),
         type |-> IF isMc THEN "mc" ELSE "open",
         prompt |-> firstNonEmptyString(<<question.task, question.prompt>>),
         answer |-> firstNonEmptyString(
                        <<question.answer, question.expected, question.solution>>),
         explain_de |-> IF lg = "de"
                        THEN firstNonEmptyString(<<question.solution, question.expected>>)
                        ELSE <<>>,
         explain_fa |-> IF lg = "fa"
                        THEN firstNonEmptyString(<<question.solution, question.expected>>)
                        ELSE <<>>,
         choices |-> IF isMc THEN question.choices ELSE -1]

RECURSIVE mapQuestions(_, _)
mapQuestions(questionsRaw, lg) ==
    IF questionsRaw = <<>> THEN <<>>
    ELSE <<mapExamQuestion(Head(questionsRaw), lg)>> \o mapQuestions(Tail(questionsRaw), lg)

hasIdAndPrompt(question) == question.id # <<>> /\ question.prompt # <<>>

\* insert q after every element that does not compare greater: a stable sort
RECURSIVE insertById(_, _)
insertById(sorted, q) ==
    IF sorted = <<>> THEN <<q>>
    ELSE IF localeCompare(Head(sorted).id, q.id) > 0
         THEN <<q>> \o sorted
         ELSE <<Head(sorted)>> \o insertById(Tail(sorted), q)

\* sortById that leaves the questions in document order
sortById_Unsorted(questions) == questions

\* Array.prototype.sort((a, b) => a.id.localeCompare(b.id))
RECURSIVE sortById(_)
sortById(questions) ==
    IF questions = <<>> THEN <<>>
    ELSE insertById(sortById(SubSeq(questions, 1, Len(questions) - 1)),
                    questions[Len(questions)])

buildExamAsset(topic, lg, title, doc) ==
    LET questionsRaw == arrayOrEmpty(doc.questions)
        questions == sortById(SelectSeq(mapQuestions(questionsRaw, lg), hasIdAndPrompt))
    IN  [schema_name |-> "tutor_asset.exam.v1",
         version |-> "1.0",
         topic |-> topic,
         lang |-> lg,
         mode |-> "exam",
         title |-> title,
         questions |-> questions]

(***************************************************************************)
(* Bounds and input sets                                                   *)
(***************************************************************************)
MaxDeVariants == 2
MaxFaVariants == 1
MaxSections == 3
MaxOrder == 2
MaxQuestions == 4
MaxRuns == 2
MaxEntries == 4
MaxListed == 3
MaxAsked == 2

langs == <<"de", "fa">>
LangSet == {langs[i] : i \in 1..Len(langs)}

\* all sequences over S of length at most n
SeqsUpTo(S, n) == UNION {[1..k -> S] : k \in 0..n}

\* the arguments main passes for a topic when no explain title is authored
TopicA == <<"a">>
TopicB == <<"b">>
\* a topic directory whose name holds a dot: b.old
TopicDotted == <<"b", "old">>

\* normalizeTopicTitle(topic) + " (" + lang.toUpperCase() + ")", kept symbolic:
\* the topic and language it is derived from
defaultTitle(topic, lg) == [text |-> <<>>, of |-> topic, lang |-> lg]

\* explainTitle || defaultTitle
titleOf(topic, lg, doc) ==
    LET explainTitle == firstNonEmptyString(<<doc.title>>)
    IN  IF explainTitle # <<>>
        THEN [text |-> explainTitle, of |-> <<>>, lang |-> ""]
        ELSE defaultTitle(topic, lg)

\* variant records that differ in their pseudocode texts
PseudoItems ==
    { Variant(JStr(<<"a">>), Undefined, JBool(FALSE), Loc(JStr(<<"x">>), Undefined), NoLoc),
      Variant(JStr(<<"a">>), Undefined, JBool(FALSE), Loc(Undefined, JStr(<<"y">>)), NoLoc),
      Variant(JStr(<<"a">>), Undefined, JBool(TRUE), NoLoc, NoLoc),
      Variant(JStr(<<"b">>), Undefined, JBool(TRUE),
              Loc(JStr(<<" ">>), JStr(<<" ", "z">>)), NoLoc),
      Variant(JStr(<<"b">>), Undefined, JBool(FALSE), NoLoc, NoLoc),
      Variant(JStr(<<"b">>), Undefined, JBool(FALSE), Loc(JStr(<<"x">>), Undefined), NoLoc) }

\* variant array elements that differ in their id
MergeItems ==
    { NullItem,
      NumberItem,
      Variant(Undefined, JStr(<<"x">>), JBool(FALSE), NoLoc, NoLoc),
      Variant(JStr(<<" ">>), JStr(<<"x">>), JBool(FALSE), NoLoc, NoLoc),
      Variant(JStr(<<"a">>), JStr(<<"x">>), JBool(FALSE), Loc(JStr(<<"x">>), Undefined), NoLoc),
      Variant(JStr(<<" ", "a", " ">>), JStr(<<"y">>), JBool(TRUE), NoLoc, NoLoc),
      Variant(JStr(<<"b">>), Undefined, JBool(FALSE), NoLoc, NoLoc) }

VariantFiles(Items, n) == {JArray(items) : items \in SeqsUpTo(Items, n)} \cup {JNotArray}

FallbackInputs ==
    { [de |-> <<>>, fa |-> <<>>], [de |-> <<"u">>, fa |-> <<>>],
      [de |-> <<>>, fa |-> <<"v">>], [de |-> <<"u">>, fa |-> <<"v">>] }

NoDoc ==
    [t |-> "null", title |-> Undefined, sections |-> JNotArray,
     sections_order |-> JNotArray, audience |-> Undefined]
NoExamDoc == [t |-> "null", questions |-> JNotArray]

EmptyFiles == [n \in {} |-> NullPayload]

\* topics.json before the index generator has run
NoIndex == [t |-> "absent", topics |-> <<>>, source |-> "", availability |-> <<>>]

\* the worker before it has been called
NoEnv ==
    [ADAPTER_TOKEN |-> [t |-> "undefined", s |-> ""],
     ASSETS |-> [files |-> <<>>, failing |-> FALSE]]
NoRequest ==
    [method |-> "", pathname |-> <<>>, origin |-> [t |-> "null", s |-> ""],
     token |-> [t |-> "null", s |-> ""], body |-> [t |-> "none"]]
NoResponse == [status |-> 0, headers |-> <<>>, body |-> <<>>]

workerVars == <<env, request, response, fetched>>
serviceVars == <<topicsJson, workerVars>>

WorkerIdle ==
    /\ env = NoEnv
    /\ request = NoRequest
    /\ response = NoResponse
    /\ fetched = <<>>

\* the values the driver's variables hold while only a builder is exercised
DriverIdle ==
    /\ topicsJson = NoIndex
    /\ WorkerIdle
    /\ sourceTree = <<>>
    /\ runDir = [exists |-> FALSE, files |-> EmptyFiles, dirs |-> {}]
    /\ topics = <<>>
    /\ topicIdx = 0
    /\ writtenFiles = <<>>
    /\ includedTopics = {}
    /\ skipped = <<>>
    /\ runs = 0
    /\ history = <<>>

driverVars == <<sourceTree, runDir, topics, topicIdx, writtenFiles, includedTopics,
                skipped, runs, history, serviceVars>>

(***************************************************************************)
(* The merger and the pseudocode builder applied to bounded inputs         *)
(***************************************************************************)
InitPseudo ==
    /\ pc = "call"
    /\ lang \in LangSet
    /\ variantsDe \in VariantFiles(PseudoItems, MaxDeVariants)
    /\ variantsFa \in VariantFiles(PseudoItems, MaxFaVariants)
    /\ topicFallbackPseudo \in FallbackInputs
    /\ mergedVariants = <<>>
    /\ explainDoc = NoDoc
    /\ examDoc = NoExamDoc
    /\ payload = NullPayload
    /\ DriverIdle

InitMerge ==
    /\ pc = "call"
    /\ lang \in LangSet
    /\ variantsDe \in VariantFiles(MergeItems, MaxDeVariants)
    /\ variantsFa \in VariantFiles(MergeItems, MaxFaVariants)
    /\ topicFallbackPseudo = [de |-> <<>>, fa |-> <<>>]
    /\ mergedVariants = <<>>
    /\ explainDoc = NoDoc
    /\ examDoc = NoExamDoc
    /\ payload = NullPayload
    /\ DriverIdle

CallMergeVariantRecords ==
    /\ pc = "call"
    /\ mergedVariants' = mergeVariantRecords(variantsDe, variantsFa)
    /\ pc' = "merged"
    /\ UNCHANGED <<lang, variantsDe, variantsFa, topicFallbackPseudo, explainDoc,
                   examDoc, payload, driverVars>>

CallBuildPseudocodeAsset ==
    /\ pc = "merged"
    /\ payload' = buildPseudocodeAsset(TopicA, lang, defaultTitle(TopicA, lang),
                                       mergedVariants, topicFallbackPseudo)
    /\ pc' = "built"
    /\ UNCHANGED <<lang, variantsDe, variantsFa, mergedVariants, topicFallbackPseudo,
                   explainDoc, examDoc, driverVars>>

NextPseudo == CallMergeVariantRecords \/ CallBuildPseudocodeAsset

SpecPseudo == InitPseudo /\ [][NextPseudo]_vars
SpecMerge == InitMerge /\ [][NextPseudo]_vars

\* variant records that differ in their id and in their is_default
DefaultItems ==
    { Variant(JStr(<<"a">>), Undefined, dflt, Loc(JStr(<<"x">>), Undefined), NoLoc) :
        dflt \in {JBool(TRUE), JBool(FALSE), JNum(TRUE), Undefined} }
    \cup
    { Variant(JStr(<<"b">>), Undefined, dflt, Loc(JStr(<<"y">>), Undefined), NoLoc) :
        dflt \in {JBool(TRUE), JBool(FALSE)} }
    \cup
    { Variant(JStr(<<" ", "a">>), Undefined, JBool(TRUE), Loc(Undefined, JStr(<<"z">>)), NoLoc) }

InitDefault ==
    /\ pc = "call"
    /\ lang \in LangSet
    /\ variantsDe \in VariantFiles(DefaultItems, MaxDeVariants)
    /\ variantsFa \in VariantFiles(DefaultItems, MaxFaVariants)
    /\ topicFallbackPseudo \in FallbackInputs
    /\ mergedVariants = <<>>
    /\ explainDoc = NoDoc
    /\ examDoc = NoExamDoc
    /\ payload = NullPayload
    /\ DriverIdle

SpecDefault == InitDefault /\ [][NextPseudo]_vars

\* variant records that differ in their id only
ListedItems ==
    { Variant(JStr(id), Undefined, JBool(FALSE), NoLoc, NoLoc) :
        id \in {<<"a">>, <<"b">>, <<"c">>, <<" ", "a", " ">>} }

InitListed ==
    /\ pc = "call"
    /\ lang = "de"
    /\ variantsDe \in VariantFiles(ListedItems, MaxListed)
    /\ variantsFa \in VariantFiles(ListedItems, MaxListed)
    /\ topicFallbackPseudo = [de |-> <<>>, fa |-> <<>>]
    /\ mergedVariants = <<>>
    /\ explainDoc = NoDoc
    /\ examDoc = NoExamDoc
    /\ payload = NullPayload
    /\ DriverIdle

NextListed == CallMergeVariantRecords

SpecListed == InitListed /\ [][NextListed]_vars

(***************************************************************************)
(* Properties of the merger and of the pseudocode builder                  *)
(***************************************************************************)
NonBlank(s) == trim(s) # <<>>

\* the ids carried by the object items of a variants file: trimmed, non-empty
CarriedIds(file) ==
    LET items == arrayOrEmpty(file)
    IN  {trim(items[i].id.s) : i \in {j \in 1..Len(items) :
            /\ items[j].t = "object"
            /\ items[j].id.t = "string"
            /\ NonBlank(items[j].id.s)}}

\* the array elements that carry no usable id
Unusable(file) ==
    LET items == arrayOrEmpty(file)
    IN  {i \in 1..Len(items) :
            items[i].t # "object" \/ items[i].id.t # "string" \/ ~NonBlank(items[i].id.s)}

\* C1: the merged result holds every id carried by an object item of either
\* list exactly once, and holds no other id
C1_MergeCompleteness ==
    pc \in {"merged", "built"} =>
        LET ids == CarriedIds(variantsDe) \cup CarriedIds(variantsFa)
        IN  /\ \A id \in ids :
                 Cardinality({i \in 1..Len(mergedVariants) : mergedVariants[i].id = id}) = 1
            /\ \A i \in 1..Len(mergedVariants) : mergedVariants[i].id \in ids

\* an id given untrimmed in one list and trimmed in the other, next to an
\* element without a usable id, has been merged
C1_Witness ==
    /\ pc = "merged"
    /\ CarriedIds(variantsDe) \cap CarriedIds(variantsFa) # {}
    /\ Cardinality(CarriedIds(variantsDe)) = 2
    /\ Unusable(variantsFa) = {}
    /\ \E i \in 1..Len(arrayOrEmpty(variantsDe)) :
          /\ arrayOrEmpty(variantsDe)[i].id.t = "string"
          /\ arrayOrEmpty(variantsDe)[i].id.s # trim(arrayOrEmpty(variantsDe)[i].id.s)

\* the authored pseudocode text of a merged record in one language: the de
\* record's text, else the fa record's
Authored(record, lg) ==
    LET fromDe == extractPseudocode(record.de.pseudocode)
        fromFa == extractPseudocode(record.fa.pseudocode)
    IN  IF lg = "de" THEN <<JStr(fromDe.de), JStr(fromFa.de)>>
        ELSE <<JStr(fromDe.fa), JStr(fromFa.fa)>>

OtherLang(lg) == IF lg = "de" THEN "fa" ELSE "de"

Extracted(lg) == IF lg = "de" THEN topicFallbackPseudo.de ELSE topicFallbackPseudo.fa

\* the chain of the claim: authored L, authored other, extractor L, extractor other
ClaimedChain(record, lg) ==
    firstNonEmptyString(Authored(record, lg) \o Authored(record, OtherLang(lg))
                        \o <<JStr(Extracted(lg)), JStr(Extracted(OtherLang(lg)))>>)

IsAsset == payload.schema_name # "null"

\* the merged record an entry of the asset was built from
RecordOf(id) == mergedVariants[CHOOSE i \in 1..Len(mergedVariants) : mergedVariants[i].id = id]

FromRecords == \E i \in 1..Len(mergedVariants) : TRUE

\* C2: the pseudocode of every variant entry is the first non-blank candidate
\* of [authored L, authored other language, extractor L, extractor other language]
C2_FallbackChain ==
    (pc = "built" /\ IsAsset /\ FromRecords) =>
        \A i \in 1..Len(payload.variants) :
            LET entry == payload.variants[i]
            IN  (\E j \in 1..Len(mergedVariants) : mergedVariants[j].id = entry.id)
                => entry.pseudocode = ClaimedChain(RecordOf(entry.id), lang)

\* some candidate text exists for the record: authored or extracted
Resolves(record) ==
    \/ firstNonEmptyString(Authored(record, "de") \o Authored(record, "fa")) # <<>>
    \/ NonBlank(topicFallbackPseudo.de)
    \/ NonBlank(topicFallbackPseudo.fa)

NoVariantSurvives == \A i \in 1..Len(mergedVariants) : ~Resolves(mergedVariants[i])

ExtractorBlank == ~NonBlank(topicFallbackPseudo.de) /\ ~NonBlank(topicFallbackPseudo.fa)

\* C3: no asset exactly when nothing resolves and the extractor is blank; a
\* lone synthesized "default" variant when only the extractor has text; never
\* a listed variant with blank pseudocode
C3_NoAssetOrDefault ==
    pc = "built" =>
        /\ ~IsAsset <=> (NoVariantSurvives /\ ExtractorBlank)
        /\ (NoVariantSurvives /\ ~ExtractorBlank) =>
              /\ Len(payload.variants) = 1
              /\ payload.variants[1].id = DefaultId
              /\ payload.variants[1].is_default = TRUE
              /\ payload.variants[1].pseudocode =
                    IF NonBlank(Extracted(lang)) THEN trim(Extracted(lang))
                    ELSE trim(Extracted(OtherLang(lang)))
        /\ IsAsset => \A i \in 1..Len(payload.variants) :
                          NonBlank(payload.variants[i].pseudocode)

\* the default variant was synthesized for fa although both extractor texts exist
C3_Witness ==
    /\ pc = "built"
    /\ lang = "fa"
    /\ NoVariantSurvives
    /\ NonBlank(topicFallbackPseudo.de)
    /\ NonBlank(topicFallbackPseudo.fa)
    /\ IsAsset
    /\ payload.variants[1].id = DefaultId

\* the first listed variant marked default, or the first listed one
FirstDefaultOrFirst(variants) ==
    LET defaults == {i \in 1..Len(variants) : variants[i].is_default}
    IN  IF defaults = {} THEN 1 ELSE CHOOSE i \in defaults : \A j \in defaults : i <= j

\* C4: the top-level pseudocode and selected_variant are those of the first
\* default variant, or of the first variant when none is default
C4_SelectedVariant ==
    (pc = "built" /\ IsAsset) =>
        LET chosen == payload.variants[FirstDefaultOrFirst(payload.variants)]
        IN  /\ payload.pseudocode = chosen.pseudocode
            /\ payload.selected_variant = chosen.id
            /\ \E i \in 1..Len(payload.variants) :
                  payload.variants[i].id = payload.selected_variant

\* a default variant listed second was selected over a non-default first one
C4_Witness ==
    /\ pc = "built"
    /\ IsAsset
    /\ Len(payload.variants) = 2
    /\ ~payload.variants[1].is_default
    /\ payload.variants[2].is_default
    /\ payload.variants[1].pseudocode # payload.variants[2].pseudocode
    /\ payload.selected_variant = payload.variants[2].id

(***************************************************************************)
(* The explain builder applied to bounded inputs                           *)
(***************************************************************************)
SectionInputs ==
    { Section(0, JStr(<<"a">>), Undefined, JStr(<<"x">>)),
      Section(0, JStr(<<"a">>), Undefined, JStr(<<"y">>)),
      Section(0, JStr(<<"b">>), Undefined, JStr(<<"z">>)),
      Section(0, JStr(<<"b">>), Undefined, JStr(<<" ">>)),
      Section(0, Undefined, JStr(<<"c">>), JStr(<<"c">>)),
      NullSection(0) }

OrderInputs == {JStr(<<"a">>), JStr(<<"b">>), JStr(<<"c">>), JNum(TRUE)}

\* the elements of a parsed array are distinct objects: ref is the position
withRefs(sections) == [i \in 1..Len(sections) |-> [sections[i] EXCEPT !.ref = i]]

ExplainDocInputs ==
    { ExplainDoc(Undefined, JArray(withRefs(sections)), order, Undefined) :
        sections \in SeqsUpTo(SectionInputs, MaxSections),
        order \in {JArray(o) : o \in SeqsUpTo(OrderInputs, MaxOrder)} \cup {JNotArray} }
    \cup {ScalarDoc}

InitExplain ==
    /\ pc = "call"
    /\ lang \in LangSet
    /\ explainDoc \in ExplainDocInputs
    /\ variantsDe = JArray(<<>>)
    /\ variantsFa = JArray(<<>>)
    /\ topicFallbackPseudo = [de |-> <<>>, fa |-> <<>>]
    /\ mergedVariants = <<>>
    /\ examDoc = NoExamDoc
    /\ payload = NullPayload
    /\ DriverIdle

CallBuildExplainAsset ==
    /\ pc = "call"
    /\ payload' = buildExplainAsset(TopicA, lang, titleOf(TopicA, lang, explainDoc), explainDoc)
    /\ pc' = "built"
    /\ UNCHANGED <<lang, variantsDe, variantsFa, mergedVariants, topicFallbackPseudo,
                   explainDoc, examDoc, driverVars>>

NextExplain == CallBuildExplainAsset

SpecExplain == InitExplain /\ [][NextExplain]_vars

\* sections with the id "definition", with that id padded, and with another id
SummarySectionInputs ==
    { Section(0, JStr(DefinitionId), Undefined, JStr(<<"x">>)),
      Section(0, JStr(DefinitionId), Undefined, JStr(<<" ">>)),
      Section(0, JStr(DefinitionId), Undefined, JNum(TRUE)),
      Section(0, JStr(<<" ">> \o DefinitionId), Undefined, JStr(<<"y">>)),
      Section(0, JStr(<<"a">>), Undefined, JStr(<<" ", "z">>)),
      Section(0, JStr(<<"a">>), Undefined, JStr(<<" ">>)),
      NullSection(0) }

SummaryOrderInputs ==
    { JNotArray, JArray(<<JStr(DefinitionId)>>),
      JArray(<<JStr(<<"a">>), JStr(DefinitionId)>>) }

AudienceInputs == {Undefined, JStr(<<" ">>), JStr(<<" ", "u">>), JNum(TRUE)}

SummaryDocInputs ==
    { ExplainDoc(Undefined, JArray(withRefs(sections)), order, audience) :
        sections \in SeqsUpTo(SummarySectionInputs, MaxSections),
        order \in SummaryOrderInputs,
        audience \in AudienceInputs }
    \cup { ExplainDoc(Undefined, JNotArray, JNotArray, audience) : audience \in AudienceInputs }
    \cup { ScalarDoc }

InitSummary ==
    /\ pc = "call"
    /\ lang \in LangSet
    /\ explainDoc \in SummaryDocInputs
    /\ variantsDe = JArray(<<>>)
    /\ variantsFa = JArray(<<>>)
    /\ topicFallbackPseudo = [de |-> <<>>, fa |-> <<>>]
    /\ mergedVariants = <<>>
    /\ examDoc = NoExamDoc
    /\ payload = NullPayload
    /\ DriverIdle

SpecSummary == InitSummary /\ [][NextExplain]_vars

(***************************************************************************)
(* The exam builder applied to bounded inputs                              *)
(***************************************************************************)
QuestionInputs ==
    { Question(JStr(<<"b">>), JStr(<<"x">>), Undefined, Undefined, Undefined, Undefined, -1),
      Question(JStr(<<"a">>), Undefined, JStr(<<"y">>), Undefined, Undefined,
               JStr(<<"z">>), 2),
      Question(JStr(<<" ", "a">>), JStr(<<" ">>), JStr(<<"z">>), Undefined, JStr(<<"x">>),
               Undefined, 0),
      Question(JStr(<<"b">>), Undefined, JNum(TRUE), Undefined, Undefined, Undefined, -1),
      Question(JStr(<<" ">>), JStr(<<"x">>), Undefined, Undefined, Undefined, Undefined, -1),
      Question(JStr(<<"a", "b">>), JStr(<<"x">>), Undefined, Undefined, Undefined,
               Undefined, -1),
      NullQuestion }

ExamDocInputs ==
    {ExamDoc(JArray(qs)) : qs \in SeqsUpTo(QuestionInputs, MaxQuestions)}
    \cup {ExamDoc(JNotArray), ScalarExamDoc}

InitExam ==
    /\ pc = "call"
    /\ lang \in LangSet
    /\ examDoc \in ExamDocInputs
    /\ variantsDe = JArray(<<>>)
    /\ variantsFa = JArray(<<>>)
    /\ topicFallbackPseudo = [de |-> <<>>, fa |-> <<>>]
    /\ mergedVariants = <<>>
    /\ explainDoc = NoDoc
    /\ payload = NullPayload
    /\ DriverIdle

CallBuildExamAsset ==
    /\ pc = "call"
    /\ payload' = buildExamAsset(TopicA, lang, defaultTitle(TopicA, lang), examDoc)
    /\ pc' = "built"
    /\ UNCHANGED <<lang, variantsDe, variantsFa, mergedVariants, topicFallbackPseudo,
                   explainDoc, examDoc, driverVars>>

NextExam == CallBuildExamAsset

SpecExam == InitExam /\ [][NextExam]_vars

\* questions that differ in their solution and expected fields
AskedInputs ==
    { Question(JStr(id), JStr(<<"x">>), Undefined, Undefined, expected, solution, -1) :
        id \in {<<"a">>, <<"b">>},
        solution \in {Undefined, JStr(<<" ">>), JStr(<<" ", "s">>), JNum(TRUE)},
        expected \in {Undefined, JStr(<<"e">>)} }
    \cup { NullQuestion }

\* the languages of the script, and tags that are neither "de" nor "fa"
AskedLangs == LangSet \cup {"en", "DE"}

InitAsked ==
    /\ pc = "call"
    /\ lang \in AskedLangs
    /\ examDoc \in {ExamDoc(JArray(qs)) : qs \in SeqsUpTo(AskedInputs, MaxAsked)}
    /\ variantsDe = JArray(<<>>)
    /\ variantsFa = JArray(<<>>)
    /\ topicFallbackPseudo = [de |-> <<>>, fa |-> <<>>]
    /\ mergedVariants = <<>>
    /\ explainDoc = NoDoc
    /\ payload = NullPayload
    /\ DriverIdle

SpecAsked == InitAsked /\ [][NextExam]_vars

(***************************************************************************)
(* Properties of the explain and exam builders                             *)
(***************************************************************************)
\* the object sections of the document and the string ids of its order list
DocSections == IF explainDoc.sections.t = "array"
               THEN SelectSeq(explainDoc.sections.items, isObject) ELSE <<>>
DocIdOrder == IF explainDoc.sections_order.t = "array"
              THEN SelectSeq(explainDoc.sections_order.items, isString) ELSE <<>>

HasId(section, id) == section.id.t = "string" /\ section.id.s = id

ListedIds == {DocIdOrder[i].s : i \in 1..Len(DocIdOrder)}

IsNamed(section) == section.id.t = "string" /\ section.id.s \in ListedIds
IsNotNamed(section) == ~IsNamed(section)

\* for each listed id in turn (an id listed again is not taken again), the
\* sections that carry it, in document order
RECURSIVE NamedInListedOrder(_, _)
NamedInListedOrder(idOrder, seen) ==
    IF idOrder = <<>> THEN <<>>
    ELSE LET WithHead(section) == HasId(section, Head(idOrder).s)
         IN  (IF Head(idOrder).s \in seen THEN <<>> ELSE SelectSeq(DocSections, WithHead))
             \o NamedInListedOrder(Tail(idOrder), seen \cup {Head(idOrder).s})

\* the blocks of a section sequence: mapped, blank texts dropped
BlocksOf(sections) ==
    LET block(i) == [kind |-> IF sections[i].id.t = "string" /\ NonBlank(sections[i].id.s)
                              THEN trim(sections[i].id.s)
                              ELSE IF sections[i].format.t = "string"
                                      /\ NonBlank(sections[i].format.s)
                                   THEN trim(sections[i].format.s)
                                   ELSE TextKind,
                     text |-> IF sections[i].body.t = "string"
                              THEN sections[i].body.s ELSE <<>>]
        all == [i \in 1..Len(sections) |-> block(i)]
    IN  SelectSeq(all, hasText)

\* C5: blocks are those of the sections named by sections_order, in the
\* order listed, followed by those of the sections it does not name, in
\* document order
C5_SectionsOrder ==
    (pc = "built" /\ payload.schema_name = "tutor_asset.explain.v1") =>
        payload.blocks =
            BlocksOf(NamedInListedOrder(DocIdOrder, {}) \o SelectSeq(DocSections, IsNotNamed))

\* C5 holds of the documents whose section ids are pairwise distinct and whose
\* order list repeats no id (not a claim: the cases the code gets right)
C5_OnDistinctIds ==
    (/\ \A i, j \in 1..Len(DocSections) :
           (i # j /\ DocSections[i].id.t = "string") => DocSections[i].id # DocSections[j].id
     /\ \A i, j \in 1..Len(DocIdOrder) : i # j => DocIdOrder[i] # DocIdOrder[j])
    => C5_SectionsOrder

RawQuestions == arrayOrEmpty(examDoc.questions)

\* the prompt of a raw question: task, else prompt
PromptOf(question) ==
    IF question.task.t = "string" /\ NonBlank(question.task.s) THEN trim(question.task.s)
    ELSE IF question.prompt.t = "string" /\ NonBlank(question.prompt.s)
         THEN trim(question.prompt.s) ELSE <<>>

IsUsable(question) ==
    /\ question.id.t = "string"
    /\ NonBlank(question.id.s)
    /\ PromptOf(question) # <<>>

\* number of raw usable questions, and of output questions, with an id and prompt
RawCount(id, prompt) ==
    Cardinality({i \in 1..Len(RawQuestions) :
        /\ IsUsable(RawQuestions[i])
        /\ trim(RawQuestions[i].id.s) = id
        /\ PromptOf(RawQuestions[i]) = prompt})
OutCount(id, prompt) ==
    Cardinality({i \in 1..Len(payload.questions) :
        payload.questions[i].id = id /\ payload.questions[i].prompt = prompt})

\* C6: the output questions are exactly the raw questions with a non-blank id
\* and prompt, each as often as it occurs, in non-decreasing order of id
C6_ExamQuestions ==
    (pc = "built" /\ payload.schema_name = "tutor_asset.exam.v1") =>
        /\ \A i \in 1..Len(RawQuestions) :
              IsUsable(RawQuestions[i]) =>
                 OutCount(trim(RawQuestions[i].id.s), PromptOf(RawQuestions[i]))
                 = RawCount(trim(RawQuestions[i].id.s), PromptOf(RawQuestions[i]))
        /\ \A i \in 1..Len(payload.questions) :
              OutCount(payload.questions[i].id, payload.questions[i].prompt)
              = RawCount(payload.questions[i].id, payload.questions[i].prompt)
        /\ \A i \in 1..(Len(payload.questions) - 1) :
              localeCompare(payload.questions[i].id, payload.questions[i + 1].id) <= 0

\* four raw questions out of order: one dropped, two sharing an id kept
C6_Witness ==
    /\ pc = "built"
    /\ Len(RawQuestions) = 4
    /\ Len(payload.questions) = 3
    /\ payload.questions[1].id = payload.questions[2].id
    /\ payload.questions[1].prompt # payload.questions[2].prompt
    /\ IsUsable(RawQuestions[1])
    /\ trim(RawQuestions[1].id.s) = payload.questions[3].id
    /\ payload.questions[3].id # payload.questions[1].id

(***************************************************************************)
(* Content loader and fallback extractor                                   *)
(***************************************************************************)
\* a source file: absent, unreadable, not parsable, or holding a value
SrcFile(state, value) == [state |-> state, value |-> value]

\* readJsonIfExists without its try/catch: a failed read or parse propagates
readJsonIfExists_NoCatch(file) ==
    [threw |-> file.state # "ok",
     isNull |-> file.state # "ok" \/ file.value.t = "null",
     value |-> file.value]

\* the parsed value, or null after any failure of readFile or JSON.parse
readJsonIfExists(file) ==
    [threw |-> FALSE,
     isNull |-> file.state # "ok" \/ file.value.t = "null",
     value |-> file.value]

RECURSIVE replaceAll(_, _, _)
replaceAll(str, pattern, replacement) ==
    IF Len(str) < Len(pattern) THEN str
    ELSE IF SubSeq(str, 1, Len(pattern)) = pattern
         THEN replacement \o replaceAll(SubSeq(str, Len(pattern) + 1, Len(str)),
                                        pattern, replacement)
         ELSE <<Head(str)>> \o replaceAll(Tail(str), pattern, replacement)

decodeEscapedPythonString(value) ==
    trim(replaceAll(replaceAll(replaceAll(replaceAll(replaceAll(value,
        <<"\\", "r", "\\", "n">>, <<"\n">>),
        <<"\\", "n">>, <<"\n">>),
        <<"\\", "t">>, <<"\t">>),
        <<"\\", "'">>, <<"'">>),
        <<"\\", "\"">>, <<"\"">>))

\* a topic module is given by what the pattern captures in it for each
\* generator: whether it matches, and the text between the triple quotes
PySource(de, fa) == [t |-> "source", de |-> de, fa |-> fa]
Capture(found, body) == [found |-> found, body |-> body]

extractPythonFunctionReturn(capture) ==
    IF ~capture.found THEN <<>> ELSE decodeEscapedPythonString(capture.body)

readTopicPseudocodeFallback(file) ==
    IF file.state # "ok" THEN [de |-> <<>>, fa |-> <<>>]
    ELSE [de |-> extractPythonFunctionReturn(file.value.de),
          fa |-> extractPythonFunctionReturn(file.value.fa)]

(***************************************************************************)
(* File names and their order                                              *)
(***************************************************************************)
\* the name components that occur, in collation order
Collation ==
    <<"", "a", "b", "de", "exam", "explain", "fa", "json", "old", "pseudocode", "readme">>

compRank(c) == CHOOSE i \in 1..Len(Collation) : Collation[i] = c

\* a.localeCompare(b) on names given by their dot-separated components
RECURSIVE nameCompare(_, _)
nameCompare(a, b) ==
    IF a = <<>> /\ b = <<>> THEN 0
    ELSE IF a = <<>> THEN -1
    ELSE IF b = <<>> THEN 1
    ELSE IF compRank(Head(a)) < compRank(Head(b)) THEN -1
    ELSE IF compRank(Head(a)) > compRank(Head(b)) THEN 1
    ELSE nameCompare(Tail(a), Tail(b))

RECURSIVE insertName(_, _)
insertName(sorted, n) ==
    IF sorted = <<>> THEN <<n>>
    ELSE IF nameCompare(Head(sorted), n) > 0 THEN <<n>> \o sorted
         ELSE <<Head(sorted)>> \o insertName(Tail(sorted), n)

\* names.sort((a, b) => a.localeCompare(b))
RECURSIVE sortNames(_)
sortNames(names) ==
    IF names = <<>> THEN <<>>
    ELSE insertName(sortNames(SubSeq(names, 1, Len(names) - 1)), names[Len(names)])

RECURSIVE insertSkip(_, _)
insertSkip(sorted, e) ==
    IF sorted = <<>> THEN <<e>>
    ELSE IF nameCompare(Head(sorted).name, e.name) > 0 THEN <<e>> \o sorted
         ELSE <<Head(sorted)>> \o insertSkip(Tail(sorted), e)

\* skipped.sort((a, b) => a.localeCompare(b)): entries begin with their name
RECURSIVE sortSkipped(_)
sortSkipped(entries) ==
    IF entries = <<>> THEN <<>>
    ELSE insertSkip(sortSkipped(SubSeq(entries, 1, Len(entries) - 1)), entries[Len(entries)])

\* `${topic}.${lang}.${mode}.json`
assetFileName(topic, lg, mode) == topic \o <<lg, mode, "json">>

\* skipEntry that leaves the language out of the entry
skipEntry_NoLang(topic, lg, mode, reason) == [name |-> topic \o <<mode>>, reason |-> reason]

\* `${topic}.${lang}.${mode} :: ${reason}`
skipEntry(topic, lg, mode, reason) == [name |-> topic \o <<lg, mode>>, reason |-> reason]

\* stableJson that stamps the document with the number of the run
stableJson_Stamped(data) ==
    [json |-> data, indent |-> 2, newline |-> TRUE, generated_at |-> runs]

\* JSON.stringify(data, null, 2) + "\n": the document, its indentation and
\* the trailing newline
stableJson(data) == [json |-> data, indent |-> 2, newline |-> TRUE]

\* rm that removes the directory entry but leaves its files behind
rm_KeepFiles(dir) == [dir EXCEPT !.exists = FALSE]

\* rm(workerRunDir, { recursive: true, force: true })
rm(dir) == [exists |-> FALSE, files |-> EmptyFiles, dirs |-> {}]

\* mkdir(workerRunDir, { recursive: true })
mkdir(dir) == [dir EXCEPT !.exists = TRUE]

\* writeFile(path, content): creates or replaces the file
writeFile(dir, name, content) ==
    [dir EXCEPT !.files = (name :> content) @@ [n \in DOMAIN @ \ {name} |-> @[n]]]

\* if (doc): a parsed document is falsy when it is null, false, 0 or ""
truthy(doc) == doc.t \notin {"null", "false"}

(***************************************************************************)
(* Topic index generator: generate_topics                                  *)
(***************************************************************************)
\* a Dirent of readdir(runDir, { withFileTypes: true })
DirEntry(name, isFile) == [name |-> name, isFile |-> isFile]

\* the entries of the output directory; the order in which readdir returns
\* them is lost in the Set and Map of main and in the sorts that follow
readdirEntries(dir) ==
    {DirEntry(n, TRUE) : n \in DOMAIN dir.files} \cup {DirEntry(n, FALSE) : n \in dir.dirs}

\* fileName.split("."): a name is kept as the sequence of its components
split(fileName) == fileName

NullTuple == [t |-> "null", topic |-> <<>>, lang |-> "", mode |-> ""]

\* extractTuple that accepts every name of four components
extractTuple_AnyFour(fileName) ==
    LET parts == split(fileName)
    IN  IF Len(parts) # 4 THEN NullTuple
        ELSE [t |-> "object", topic |-> <<parts[1]>>, lang |-> parts[2], mode |-> parts[3]]

\* the topic of a tuple is a name of one component
extractTuple(fileName) ==
    LET parts == split(fileName)
    IN  IF Len(parts) # 4 THEN NullTuple
        ELSE IF parts[1] = "" \/ parts[2] = "" \/ parts[3] = "" \/ parts[4] # "json"
             THEN NullTuple
             ELSE [t |-> "object", topic |-> <<parts[1]>>, lang |-> parts[2],
                   mode |-> parts[3]]

\* the tuples main collects from the regular files
tuplesOf(entries) ==
    {extractTuple(e.name) : e \in {x \in entries : x.isFile}} \ {NullTuple}

\* Array.from(set).sort(), and the sort by localeCompare, on name components
RECURSIVE sortStrings(_)
sortStrings(S) ==
    IF S = {} THEN <<>>
    ELSE LET least == CHOOSE x \in S : \A y \in S : compRank(x) <= compRank(y)
         IN  <<least>> \o sortStrings(S \ {least})

\* sortStrings that keeps only the first mode of a language
sortModes_FirstOnly(S) == IF S = {} THEN <<>> ELSE <<sortStrings(S)[1]>>

\* Array.from(modes).sort()
sortModes(S) == sortStrings(S)

\* Object.fromEntries of the sorted [lang, modes] entries of a topic
langEntries(tuples, tpc) ==
    LET ofTopic == {x \in tuples : x.topic = tpc}
        langKeys == sortStrings({x.lang : x \in ofTopic})
    IN  [i \in 1..Len(langKeys) |->
            [lang |-> langKeys[i],
             modes |-> sortModes({x.mode : x \in {y \in ofTopic : y.lang = langKeys[i]}})]]

\* normalizedAvailability: the sorted [topic, langMap] entries
normalizedAvailability(tuples) ==
    LET topicKeys == sortStrings({x.topic[1] : x \in tuples})
    IN  [i \in 1..Len(topicKeys) |->
            [topic |-> <<topicKeys[i]>>, langs |-> langEntries(tuples, <<topicKeys[i]>>)]]

\* Array.from(topics).sort(): the topics are names of one component
sortTopics(S) ==
    LET keys == sortStrings({x[1] : x \in S})
    IN  [i \in 1..Len(keys) |-> <<keys[i]>>]

\* the payload main writes to topics.json
indexPayload(entries) ==
    LET tuples == tuplesOf(entries)
    IN  [t |-> "object",
         topics |-> sortTopics({x.topic : x \in tuples}),
         source |-> "generated-from-assets",
         availability |-> normalizedAvailability(tuples)]

(***************************************************************************)
(* The authoring repository and the output directory at the start of a run *)
(***************************************************************************)
FileOptions(okValue) ==
    { SrcFile("ok", okValue), SrcFile("absent", okValue),
      SrcFile("unreadable", okValue), SrcFile("malformed", okValue) }

TopicDir(vDe, vFa, py, explainDe, explainFa, examDe, examFa) ==
    [isDirectory |-> TRUE, variantsDe |-> vDe, variantsFa |-> vFa, py |-> py,
     explain |-> [de |-> explainDe, fa |-> explainFa],
     exam |-> [de |-> examDe, fa |-> examFa]]

OkVariantsDe ==
    JArray(<< Variant(JStr(<<"a">>), JStr(<<"x">>), JBool(TRUE),
                      Loc(JStr(<<"x">>), Undefined), NoLoc) >>)
OkVariantsFa ==
    JArray(<< Variant(JStr(<<"a">>), Undefined, JBool(FALSE),
                      Loc(Undefined, JStr(<<"y">>)), NoLoc),
              Variant(JStr(<<"b">>), Undefined, JBool(FALSE), NoLoc, NoLoc) >>)
OkPy == PySource(Capture(TRUE, <<"\\", "n", "u", " ">>), Capture(FALSE, <<>>))
OkExplain ==
    ExplainDoc(JStr(<<"c">>),
               JArray(withRefs(<< Section(0, JStr(<<"a">>), Undefined, JStr(<<"x">>)),
                                  Section(0, JStr(<<"b">>), Undefined, JStr(<<"z">>)) >>)),
               JArray(<<JStr(<<"b">>)>>), Undefined)
OkExam ==
    ExamDoc(JArray(<< Question(JStr(<<"b">>), JStr(<<"x">>), Undefined, Undefined,
                               Undefined, Undefined, -1),
                      Question(JStr(<<"a">>), Undefined, JStr(<<"y">>), Undefined,
                               Undefined, JStr(<<"z">>), 2) >>))
NoPy == PySource(Capture(FALSE, <<>>), Capture(FALSE, <<>>))

\* topic a: every state of its German sources and of its module
TopicAInputs ==
    { TopicDir(vDe, SrcFile("ok", OkVariantsFa), py, explainDe,
               SrcFile("absent", NoDoc), examDe, SrcFile("ok", OkExam)) :
        vDe \in FileOptions(OkVariantsDe),
        py \in {SrcFile("ok", OkPy), SrcFile("absent", NoPy), SrcFile("unreadable", NoPy)},
        explainDe \in FileOptions(OkExplain),
        examDe \in FileOptions(OkExam) }

\* topic b: without any pseudocode source, or with a module only
TopicBInputs ==
    { TopicDir(SrcFile("absent", JArray(<<>>)), SrcFile("ok", JNotArray), py,
               SrcFile("ok", ScalarDoc), SrcFile("ok", OkExplain),
               SrcFile("ok", ScalarExamDoc), SrcFile("absent", NoExamDoc)) :
        py \in {SrcFile("ok", OkPy), SrcFile("absent", NoPy)} }

\* topic b.old: a Persian exam document only
TopicDottedInputs ==
    { TopicDir(SrcFile("absent", JArray(<<>>)), SrcFile("absent", JArray(<<>>)),
               SrcFile("absent", NoPy), SrcFile("absent", NoDoc), SrcFile("absent", NoDoc),
               SrcFile("absent", NoExamDoc), SrcFile("ok", OkExam)) }

\* an entry of the topics directory that is not a directory
PlainFile ==
    [isDirectory |-> FALSE, variantsDe |-> SrcFile("absent", JArray(<<>>)),
     variantsFa |-> SrcFile("absent", JArray(<<>>)), py |-> SrcFile("absent", NoPy),
     explain |-> [de |-> SrcFile("absent", NoDoc), fa |-> SrcFile("absent", NoDoc)],
     exam |-> [de |-> SrcFile("absent", NoExamDoc), fa |-> SrcFile("absent", NoExamDoc)]]

SourceTrees ==
    { (TopicA :> a) @@ (TopicB :> b) @@ (TopicDotted :> d) @@ (<<"readme">> :> PlainFile) :
        a \in TopicAInputs, b \in TopicBInputs, d \in TopicDottedInputs }

StaleContent == stableJson([schema_name |-> "stale"])

\* the output directory before the first run: missing, or left by an earlier
\* run over a source that still had topic old
RunDirInputs ==
    { [exists |-> FALSE, files |-> EmptyFiles, dirs |-> {}],
      [exists |-> TRUE,
       files |-> (assetFileName(<<"old">>, "de", "exam") :> StaleContent)
                 @@ (assetFileName(TopicA, "de", "exam") :> StaleContent),
       dirs |-> {<<"old">>}] }

fileFor(byLang, lg) == IF lg = "de" THEN byLang.de ELSE byLang.fa

(***************************************************************************)
(* Pipeline driver: main                                                   *)
(***************************************************************************)
Init ==
    /\ runs = 0
    /\ topicsJson = NoIndex
    /\ WorkerIdle
    /\ pc = "mkdir1"
    /\ lang = langs[1]
    /\ variantsDe = JArray(<<>>)
    /\ variantsFa = JArray(<<>>)
    /\ mergedVariants = <<>>
    /\ topicFallbackPseudo = [de |-> <<>>, fa |-> <<>>]
    /\ explainDoc = NoDoc
    /\ examDoc = NoExamDoc
    /\ payload = NullPayload
    /\ sourceTree \in SourceTrees
    /\ runDir \in RunDirInputs
    /\ topics = <<>>
    /\ topicIdx = 0
    /\ writtenFiles = <<>>
    /\ includedTopics = {}
    /\ skipped = <<>>
    /\ history = [cleared |-> FALSE, written |-> EmptyFiles, abortedAt |-> "none",
                  before |-> runDir.files, pending |-> <<>>, changed |-> <<>>,
                  repairedFrom |-> PlainFile]

loopVars == <<lang, variantsDe, variantsFa, mergedVariants, topicFallbackPseudo,
              explainDoc, examDoc, payload>>
reportVars == <<topics, topicIdx, writtenFiles, includedTopics, skipped>>

\* main().catch: the error is printed and the process exits with status 1
Abort(at) ==
    /\ pc' = "aborted"
    /\ history' = [history EXCEPT !.abortedAt = at]
    /\ UNCHANGED <<loopVars, reportVars, sourceTree, runDir, runs, serviceVars>>

Mkdir1 ==
    /\ pc = "mkdir1"
    /\ \E ok \in BOOLEAN :
         IF ok
         THEN /\ runDir' = mkdir(runDir)
              /\ pc' = "rm"
              /\ UNCHANGED <<loopVars, reportVars, sourceTree, runs, history, serviceVars>>
         ELSE Abort("mkdir")

Rm ==
    /\ pc = "rm"
    /\ \E ok \in BOOLEAN :
         IF ok
         THEN /\ runDir' = rm(runDir)
              /\ history' = [history EXCEPT !.cleared = TRUE]
              /\ pc' = "mkdir2"
              /\ UNCHANGED <<loopVars, reportVars, sourceTree, runs, serviceVars>>
         ELSE Abort("rm")

Mkdir2 ==
    /\ pc = "mkdir2"
    /\ \E ok \in BOOLEAN :
         IF ok
         THEN /\ runDir' = mkdir(runDir)
              /\ pc' = "readdir"
              /\ UNCHANGED <<loopVars, reportVars, sourceTree, runs, history, serviceVars>>
         ELSE Abort("mkdir")

\* the orders in which readdir may return the entries
Listings ==
    LET names == DOMAIN sourceTree
        n == Cardinality(names)
    IN  {l \in [1..n -> names] : \A i, j \in 1..n : i # j => l[i] # l[j]}

isDirectoryName(name) == sourceTree[name].isDirectory

Readdir ==
    /\ pc = "readdir"
    /\ \E ok \in BOOLEAN :
         IF ok
         THEN \E topicEntries \in Listings :
                /\ topics' = sortNames(SelectSeq(topicEntries, isDirectoryName))
                /\ writtenFiles' = <<>>
                /\ includedTopics' = {}
                /\ skipped' = <<>>
                /\ topicIdx' = 1
                /\ pc' = IF topics' = <<>> THEN "report" ELSE "variantsDe"
                /\ UNCHANGED <<loopVars, sourceTree, runDir, runs, history, serviceVars>>
         ELSE Abort("readdir")

topic == topics[topicIdx]
topicDir == sourceTree[topic]

ReadVariantsDe ==
    /\ pc = "variantsDe"
    /\ LET read == readJsonIfExists(topicDir.variantsDe)
       IN  IF read.threw THEN Abort("read")
           ELSE /\ variantsDe' = IF read.isNull THEN JArray(<<>>) ELSE read.value
                /\ pc' = "variantsFa"
                /\ UNCHANGED <<lang, variantsFa, mergedVariants, topicFallbackPseudo,
                               explainDoc, examDoc, payload, reportVars, sourceTree,
                               runDir, runs, history, serviceVars>>

ReadVariantsFa ==
    /\ pc = "variantsFa"
    /\ LET read == readJsonIfExists(topicDir.variantsFa)
       IN  IF read.threw THEN Abort("read")
           ELSE /\ variantsFa' = IF read.isNull THEN JArray(<<>>) ELSE read.value
                /\ mergedVariants' = mergeVariantRecords(variantsDe, variantsFa')
                /\ pc' = "fallback"
                /\ UNCHANGED <<lang, variantsDe, topicFallbackPseudo, explainDoc, examDoc,
                               payload, reportVars, sourceTree, runDir, runs, history, serviceVars>>

ReadFallback ==
    /\ pc = "fallback"
    /\ topicFallbackPseudo' = readTopicPseudocodeFallback(topicDir.py)
    /\ lang' = langs[1]
    /\ pc' = "explain"
    /\ UNCHANGED <<variantsDe, variantsFa, mergedVariants, explainDoc, examDoc, payload,
                   reportVars, sourceTree, runDir, runs, history, serviceVars>>

ReadExplain ==
    /\ pc = "explain"
    /\ LET read == readJsonIfExists(fileFor(topicDir.explain, lang))
       IN  IF read.threw THEN Abort("read")
           ELSE /\ explainDoc' = IF read.isNull THEN NoDoc ELSE read.value
                /\ pc' = "exam"
                /\ UNCHANGED <<lang, variantsDe, variantsFa, mergedVariants,
                               topicFallbackPseudo, examDoc, payload, reportVars,
                               sourceTree, runDir, runs, history, serviceVars>>

ReadExam ==
    /\ pc = "exam"
    /\ LET read == readJsonIfExists(fileFor(topicDir.exam, lang))
       IN  IF read.threw THEN Abort("read")
           ELSE /\ examDoc' = IF read.isNull THEN NoExamDoc ELSE read.value
                /\ pc' = "emitPseudocode"
                /\ UNCHANGED <<lang, variantsDe, variantsFa, mergedVariants,
                               topicFallbackPseudo, explainDoc, payload, reportVars,
                               sourceTree, runDir, runs, history, serviceVars>>

\* await writeFile(...); writtenFiles.push(name); includedTopics.add(topic)
Write(mode, data, next) ==
    \E ok \in BOOLEAN :
        IF ok
        THEN LET name == assetFileName(topic, lang, mode)
             IN  /\ runDir' = writeFile(runDir, name, stableJson(data))
                 /\ writtenFiles' = Append(writtenFiles, name)
                 /\ includedTopics' = includedTopics \cup {topic}
                 /\ history' = [history EXCEPT !.written =
                                   (name :> stableJson(data))
                                   @@ [n \in DOMAIN @ \ {name} |-> @[n]]]
                 /\ payload' = data
                 /\ pc' = next
                 /\ UNCHANGED <<lang, variantsDe, variantsFa, mergedVariants,
                                topicFallbackPseudo, explainDoc, examDoc, topics,
                                topicIdx, skipped, sourceTree, runs, serviceVars>>
        ELSE Abort("write")

\* skipped.push(...)
Skip(mode, reason, next) ==
    /\ skipped' = Append(skipped, skipEntry(topic, lang, mode, reason))
    /\ pc' = next
    /\ UNCHANGED <<loopVars, topics, topicIdx, writtenFiles, includedTopics, sourceTree,
                   runDir, runs, history, serviceVars>>

EmitPseudocode ==
    /\ pc = "emitPseudocode"
    /\ LET title == titleOf(topic, lang, explainDoc)
           pseudoPayload == buildPseudocodeAsset(topic, lang, title, mergedVariants,
                                                 topicFallbackPseudo)
       IN  IF pseudoPayload.schema_name # "null"
           THEN Write("pseudocode", pseudoPayload, "emitExplain")
           ELSE Skip("pseudocode", "no pseudocode source (variants/python)", "emitExplain")

EmitExplain ==
    /\ pc = "emitExplain"
    /\ LET title == titleOf(topic, lang, explainDoc)
       IN  IF truthy(explainDoc)
           THEN Write("explain", buildExplainAsset(topic, lang, title, explainDoc),
                      "emitExam")
           ELSE Skip("explain", "explain file missing", "emitExam")

EmitExam ==
    /\ pc = "emitExam"
    /\ LET title == titleOf(topic, lang, explainDoc)
       IN  IF truthy(examDoc)
           THEN Write("exam", buildExamAsset(topic, lang, title, examDoc), "nextLang")
           ELSE Skip("exam", "exam file missing", "nextLang")

langIdx == CHOOSE i \in 1..Len(langs) : langs[i] = lang

\* the heads of the two for loops: next language, else next topic, else the report
Advance ==
    /\ pc = "nextLang"
    /\ IF langIdx < Len(langs)
       THEN /\ lang' = langs[langIdx + 1]
            /\ pc' = "explain"
            /\ UNCHANGED topicIdx
       ELSE /\ topicIdx' = topicIdx + 1
            /\ pc' = IF topicIdx < Len(topics) THEN "variantsDe" ELSE "report"
            /\ UNCHANGED lang
    /\ UNCHANGED <<variantsDe, variantsFa, mergedVariants, topicFallbackPseudo, explainDoc,
                   examDoc, payload, topics, writtenFiles, includedTopics, skipped,
                   sourceTree, runDir, runs, history, serviceVars>>

Report ==
    /\ pc = "report"
    /\ writtenFiles' = sortNames(writtenFiles)
    /\ skipped' = sortSkipped(skipped)
    /\ runs' = runs + 1
    /\ UNCHANGED history
    /\ pc' = "done"
    /\ UNCHANGED <<loopVars, topics, topicIdx, includedTopics, sourceTree, runDir, serviceVars>>

\* generate_topics is run over the output directory the completed run left;
\* a failing readdir or writeFile ends it with exit status 1
GenerateTopics ==
    /\ pc = "done"
    /\ \E ok \in BOOLEAN :
         IF ok /\ runDir.exists
         THEN /\ topicsJson' = indexPayload(readdirEntries(runDir))
              /\ pc' = "indexed"
         ELSE /\ pc' = "indexFailed"
              /\ UNCHANGED topicsJson
    /\ UNCHANGED <<loopVars, reportVars, sourceTree, runDir, runs, history, workerVars>>

\* all sources of a topic present and well formed
WellFormedDir ==
    TopicDir(SrcFile("ok", OkVariantsDe), SrcFile("ok", OkVariantsFa), SrcFile("ok", OkPy),
             SrcFile("ok", OkExplain), SrcFile("ok", OkExplain),
             SrcFile("ok", OkExam), SrcFile("ok", OkExam))

\* between two runs the sources of one topic are put right
RepairTopic ==
    /\ pc = "done"
    /\ runs < MaxRuns
    /\ history.pending = <<>>
    /\ \E t \in {topics[i] : i \in 1..Len(topics)} :
          /\ sourceTree[t] # WellFormedDir
          /\ sourceTree' = [sourceTree EXCEPT ![t] = WellFormedDir]
          /\ history' = [history EXCEPT !.pending = t, !.repairedFrom = sourceTree[t]]
    /\ UNCHANGED <<pc, loopVars, reportVars, runDir, runs, serviceVars>>

\* the script is run again
Rerun ==
    /\ pc = "done"
    /\ runs < MaxRuns
    /\ pc' = "mkdir1"
    /\ lang' = langs[1]
    /\ variantsDe' = JArray(<<>>)
    /\ variantsFa' = JArray(<<>>)
    /\ mergedVariants' = <<>>
    /\ topicFallbackPseudo' = [de |-> <<>>, fa |-> <<>>]
    /\ explainDoc' = NoDoc
    /\ examDoc' = NoExamDoc
    /\ payload' = NullPayload
    /\ topics' = <<>>
    /\ topicIdx' = 0
    /\ writtenFiles' = <<>>
    /\ includedTopics' = {}
    /\ skipped' = <<>>
    /\ history' = [history EXCEPT !.cleared = FALSE, !.written = EmptyFiles,
                                  !.before = runDir.files, !.changed = history.pending,
                                  !.pending = <<>>]
    /\ UNCHANGED <<sourceTree, runDir, runs, serviceVars>>

Next ==
    \/ Mkdir1 \/ Rm \/ Mkdir2 \/ Readdir
    \/ ReadVariantsDe \/ ReadVariantsFa \/ ReadFallback \/ ReadExplain \/ ReadExam
    \/ EmitPseudocode \/ EmitExplain \/ EmitExam \/ Advance
    \/ Report \/ GenerateTopics \/ RepairTopic \/ Rerun

Spec == Init /\ [][Next]_vars

(***************************************************************************)
(* The index generator applied to bounded output directories              *)
(***************************************************************************)
\* names of regular files: of the four-component shape, of five components,
\* with another extension, with an empty component, of fewer components
IndexFileNames ==
    { <<"a", "de", "exam", "json">>, <<"a", "fa", "exam", "json">>,
      <<"a", "de", "pseudocode", "json">>, <<"b", "de", "explain", "json">>,
      <<"b", "old", "de", "exam", "json">>, <<"a", "de", "explain", "old">>,
      <<"", "de", "exam", "json">>, <<"readme">> }

\* names of sub-directories
IndexDirNames == { <<"b", "fa", "exam", "json">> }

IndexDirInputs ==
    { [exists |-> TRUE, files |-> [n \in names |-> StaleContent], dirs |-> dirs] :
        names \in {N \in SUBSET IndexFileNames : Cardinality(N) <= MaxEntries},
        dirs \in SUBSET IndexDirNames }
    \cup { [exists |-> FALSE, files |-> EmptyFiles, dirs |-> {}] }

InitIndex ==
    /\ pc = "done"
    /\ runDir \in IndexDirInputs
    /\ lang = langs[1]
    /\ variantsDe = JArray(<<>>)
    /\ variantsFa = JArray(<<>>)
    /\ mergedVariants = <<>>
    /\ topicFallbackPseudo = [de |-> <<>>, fa |-> <<>>]
    /\ explainDoc = NoDoc
    /\ examDoc = NoExamDoc
    /\ payload = NullPayload
    /\ sourceTree = <<>>
    /\ topics = <<>>
    /\ topicIdx = 0
    /\ writtenFiles = <<>>
    /\ includedTopics = {}
    /\ skipped = <<>>
    /\ runs = 0
    /\ history = <<>>
    /\ topicsJson = NoIndex
    /\ WorkerIdle

NextIndex == GenerateTopics

SpecIndex == InitIndex /\ [][NextIndex]_vars

(***************************************************************************)
(* Properties of the pipeline driver                                       *)
(***************************************************************************)
Modes == {"pseudocode", "explain", "exam"}
TopicSet == {topics[i] : i \in 1..Len(topics)}
WrittenSet == {writtenFiles[i] : i \in 1..Len(writtenFiles)}

\* C7: no asset file is written before the removal of the output directory
\* has completed, and a completed run leaves exactly the files it wrote
C7_ClearThenWrite ==
    /\ (DOMAIN history.written # {}) => history.cleared
    /\ pc \in {"emitPseudocode", "emitExplain", "emitExam"} => history.cleared
    /\ pc = "done" =>
          /\ DOMAIN runDir.files = WrittenSet
          /\ runDir.files = history.written

\* a run completed over a directory that held a file of a removed topic and
\* an older version of a file the run writes
C7_Witness ==
    /\ pc = "done"
    /\ runs = 1
    /\ assetFileName(<<"old">>, "de", "exam") \in DOMAIN history.before
    /\ assetFileName(TopicA, "de", "exam") \in DOMAIN history.before
    /\ assetFileName(TopicA, "de", "exam") \in DOMAIN runDir.files
    /\ runDir.files[assetFileName(TopicA, "de", "exam")] # StaleContent
    /\ assetFileName(<<"old">>, "de", "exam") \notin DOMAIN runDir.files

SkipCount(t, lg, mode) ==
    Cardinality({i \in 1..Len(skipped) : skipped[i].name = t \o <<lg, mode>>})

WasWritten(t, lg, mode) ==
    /\ assetFileName(t, lg, mode) \in WrittenSet
    /\ assetFileName(t, lg, mode) \in DOMAIN runDir.files

\* C8: at completion every (topic, lang, mode) has its file or a skip entry,
\* never both and never neither; a topic without a German exam source has no
\* German exam file and one skip entry for it
C8_WrittenXorSkipped ==
    pc = "done" =>
        \A t \in TopicSet :
            /\ \A lg \in LangSet : \A mode \in Modes :
                  /\ WasWritten(t, lg, mode) <=> SkipCount(t, lg, mode) = 0
                  /\ WasWritten(t, lg, mode)
                       <=> assetFileName(t, lg, mode) \in DOMAIN runDir.files
                  /\ SkipCount(t, lg, mode) <= 1
            /\ sourceTree[t].exam.de.state = "absent" =>
                  /\ ~WasWritten(t, "de", "exam")
                  /\ SkipCount(t, "de", "exam") = 1

\* topic a had no German exam source: its Persian exam was written, its
\* German exam skipped
C8_Witness ==
    /\ pc = "done"
    /\ sourceTree[TopicA].exam.de.state = "absent"
    /\ WasWritten(TopicA, "fa", "exam")
    /\ SkipCount(TopicA, "de", "exam") = 1
    /\ SkipCount(TopicB, "de", "pseudocode") = 1

\* the files of a directory listing that belong to topics other than t
OtherTopicFiles(files, t) ==
    {<<n, files[n]>> : n \in {m \in DOMAIN files : SubSeq(m, 1, Len(m) - 3) # t}}

\* C9: no failure to read or parse a source stops the run, and the files of
\* all other topics are the same over the faulty sources of a topic as over
\* its well-formed sources
C9_TopicIsolation ==
    /\ history.abortedAt # "read"
    /\ (pc = "done" /\ runs >= 2 /\ history.changed # <<>>) =>
          OtherTopicFiles(runDir.files, history.changed)
          = OtherTopicFiles(history.before, history.changed)

\* topic a was run with a malformed, an unreadable and an absent source and
\* then with well-formed ones: its own files changed
C9_Witness ==
    /\ pc = "done"
    /\ runs = 2
    /\ history.changed = TopicA
    /\ history.repairedFrom.variantsDe.state = "malformed"
    /\ history.repairedFrom.explain.de.state = "unreadable"
    /\ history.repairedFrom.exam.de.state = "absent"
    /\ history.repairedFrom.py.state = "unreadable"
    /\ OtherTopicFiles(runDir.files, TopicA) # {}
    /\ DOMAIN runDir.files # DOMAIN history.before

\* C10: a second run over unchanged sources leaves the same file names with
\* the same contents as the run before it
C10_Idempotence ==
    (pc = "done" /\ runs >= 2 /\ history.changed = <<>>) =>
        /\ DOMAIN runDir.files = DOMAIN history.before
        /\ runDir.files = history.before

\* the second of two runs over unchanged sources has completed and left files
C10_Witness ==
    /\ pc = "done"
    /\ runs = 2
    /\ history.changed = <<>>
    /\ Cardinality(DOMAIN runDir.files) >= 6
    /\ runDir.files = history.before

(***************************************************************************)
(* The worker: handleRequest                                               *)
(***************************************************************************)
ALLOWED_ORIGIN == "https://barakzai.cloud"
CORS_ALLOW_HEADERS == <<"X-Adapter-Token", "Content-Type">>
CORS_ALLOW_METHODS == "GET,POST,OPTIONS"
CORS_MAX_AGE == "86400"

\* request.headers.get(name): the value, or null when the header is absent
Header(value) == [t |-> "string", s |-> value]
NoHeader == [t |-> "null", s |-> ""]

\* headers.get(name) || ""
headerOrEmpty(h) == IF h.t = "string" THEN h.s ELSE ""

\* corsHeaders without the Access-Control-Max-Age header
corsHeaders_NoMaxAge(req) ==
    LET origin == headerOrEmpty(req.origin)
        allowOrigin == IF origin = ALLOWED_ORIGIN THEN origin ELSE ALLOWED_ORIGIN
    IN  [AccessControlAllowOrigin |-> allowOrigin,
         AccessControlAllowHeaders |-> CORS_ALLOW_HEADERS,
         AccessControlAllowMethods |-> CORS_ALLOW_METHODS,
         AccessControlMaxAge |-> "",
         Vary |-> "Origin"]

corsHeaders(req) ==
    LET origin == headerOrEmpty(req.origin)
        allowOrigin == IF origin = ALLOWED_ORIGIN THEN origin ELSE ALLOWED_ORIGIN
    IN  [AccessControlAllowOrigin |-> allowOrigin,
         AccessControlAllowHeaders |-> CORS_ALLOW_HEADERS,
         AccessControlAllowMethods |-> CORS_ALLOW_METHODS,
         AccessControlMaxAge |-> CORS_MAX_AGE,
         Vary |-> "Origin"]

apiHeaders(req) == [CacheControl |-> "no-store"] @@ corsHeaders(req)

\* the detail of an error payload: a text, and the field names joined to it
Detail(text) == [text |-> text, fields |-> <<>>]

\* json(obj, status, headers): the body is JSON.stringify(obj)
json(obj, status, headers) ==
    [status |-> status,
     headers |-> [ContentType |-> "application/json; charset=utf-8"] @@ headers,
     body |-> [stringify |-> obj]]

\* assertOrigin that lets every origin pass
assertOrigin_AnyOrigin(req) ==
    [ok |-> TRUE, status |-> 200, payload |-> [detail |-> Detail("")]]

assertOrigin(req) ==
    LET origin == req.origin
    IN  IF origin.t # "string" \/ origin.s = "" \/ origin.s # ALLOWED_ORIGIN
        THEN [ok |-> FALSE, status |-> 403, payload |-> [detail |-> Detail("Forbidden origin")]]
        ELSE [ok |-> TRUE, status |-> 200, payload |-> [detail |-> Detail("")]]

\* String(env.ADAPTER_TOKEN || "")
expectedToken(e) == IF e.ADAPTER_TOKEN.t = "string" THEN e.ADAPTER_TOKEN.s ELSE ""

\* assertAuth that accepts a request without the token header
assertAuth_MissingTokenPasses(req, e) ==
    LET expected == expectedToken(e)
        provided == headerOrEmpty(req.token)
    IN  IF expected = ""
        THEN [ok |-> FALSE, status |-> 500,
              payload |-> [detail |-> Detail("Server misconfigured: ADAPTER_TOKEN is missing")]]
        ELSE IF provided # "" /\ provided # expected
             THEN [ok |-> FALSE, status |-> 401, payload |-> [detail |-> Detail("Unauthorized")]]
             ELSE [ok |-> TRUE, status |-> 200, payload |-> [detail |-> Detail("")]]

assertAuth(req, e) ==
    LET expected == expectedToken(e)
        provided == headerOrEmpty(req.token)
    IN  IF expected = ""
        THEN [ok |-> FALSE, status |-> 500,
              payload |-> [detail |-> Detail("Server misconfigured: ADAPTER_TOKEN is missing")]]
        ELSE IF provided # expected
             THEN [ok |-> FALSE, status |-> 401, payload |-> [detail |-> Detail("Unauthorized")]]
             ELSE [ok |-> TRUE, status |-> 200, payload |-> [detail |-> Detail("")]]

\* env.ASSETS.fetch(new Request(assetUrl)): the stored text, 404 for a path
\* that is not stored, and an error status when the store fails
fetchAsset(e, path) ==
    IF e.ASSETS.failing THEN [status |-> 500, ok |-> FALSE, text |-> [text |-> <<>>]]
    ELSE IF path \in DOMAIN e.ASSETS.files
         THEN [status |-> 200, ok |-> TRUE, text |-> e.ASSETS.files[path]]
         ELSE [status |-> 404, ok |-> FALSE, text |-> [text |-> <<>>]]

\* the parsed body of a run request: an object with its fields, or null
RunBody(api_version, request_id, topicField, langField, modeField) ==
    [t |-> "object", api_version |-> api_version, request_id |-> request_id,
     topic |-> topicField, lang |-> langField, mode |-> modeField]
NullBody == [RunBody(Undefined, Undefined, Undefined, Undefined, Undefined) EXCEPT !.t = "null"]
\* a body for which request.json() throws
InvalidBody == [NullBody EXCEPT !.t = "invalid"]
\* a request without a body
NoBody == [NullBody EXCEPT !.t = "none"]

\* body?.[field]
fieldOf(body, field) ==
    IF body.t # "object" THEN Undefined
    ELSE CASE field = "api_version" -> body.api_version
           [] field = "request_id" -> body.request_id
           [] field = "topic" -> body.topic
           [] field = "lang" -> body.lang
           [] field = "mode" -> body.mode

RequiredFields == <<"api_version", "request_id", "topic", "lang", "mode">>

\* requiredRunFields that requires the topic and the language only
requiredRunFields_TopicLangOnly(body) ==
    LET isMissing(field) ==
            /\ field \in {"topic", "lang"}
            /\ (fieldOf(body, field).t # "string" \/ trim(fieldOf(body, field).s) = <<>>)
    IN  SelectSeq(RequiredFields, isMissing)

requiredRunFields(body) ==
    LET isMissing(field) ==
            fieldOf(body, field).t # "string" \/ trim(fieldOf(body, field).s) = <<>>
    IN  SelectSeq(RequiredFields, isMissing)

\* String.prototype.toLowerCase on the characters that occur
lowerChar(c) == CASE c = "A" -> "a" [] c = "D" -> "d" [] c = "E" -> "e" [] OTHER -> c
lowerCase(str) == [i \in 1..Len(str) |-> lowerChar(str[i])]

TopicsJsonPath == <<"/tutor-data/topics.json">>

\* `/tutor-data/run/${topic}.${lang}.${mode}.json`: the characters of the
\* three values between the literal parts
runAssetPath(topicName, lg, mode) ==
    <<"/tutor-data/run/">> \o topicName \o <<".">> \o lg \o <<".">> \o mode \o <<".json">>

\* the response text wrapped into a result envelope
assetText_Wrapped(assetResponse) == [result |-> assetResponse.text]

\* await assetResponse.text()
assetText(assetResponse) == assetResponse.text

Answer(resp, fetches) == [response |-> resp, fetched |-> fetches]

\* the part GET /v1/topics and POST /v1/run share once the path is known
serveAsset(req, e, path) ==
    LET assetResponse == fetchAsset(e, path)
    IN  IF assetResponse.status = 404
        THEN Answer(json([detail |-> Detail("Not found")], 404, apiHeaders(req)), <<path>>)
        ELSE IF ~assetResponse.ok
             THEN Answer(json([detail |-> Detail("Upstream asset error")], 502,
                              apiHeaders(req)), <<path>>)
             ELSE Answer([status |-> 200,
                          headers |-> [ContentType |-> "application/json; charset=utf-8"]
                                      @@ apiHeaders(req),
                          body |-> assetText(assetResponse)],
                         <<path>>)

\* url.pathname.startsWith("/v1/") on a pathname given by its segments
startsWithV1(pathname) == Len(pathname) >= 2 /\ pathname[1] = "v1"

handleRequest(req, e) ==
    LET isTopics == req.pathname = <<"v1", "topics">>
        isRun == req.pathname = <<"v1", "run">>
        originCheck == assertOrigin(req)
        authCheck == assertAuth(req, e)
        missing == requiredRunFields(req.body)
    IN  IF req.method = "OPTIONS" /\ (isTopics \/ isRun)
        THEN IF ~originCheck.ok
             THEN Answer(json(originCheck.payload, originCheck.status, apiHeaders(req)), <<>>)
             ELSE Answer([status |-> 204, headers |-> apiHeaders(req),
                          body |-> [stringify |-> <<>>]], <<>>)
        ELSE IF req.pathname = <<"v1", "health">> /\ req.method = "GET"
        THEN Answer(json([ok |-> TRUE, service |-> "dailyflow-tutor-api"], 200,
                         apiHeaders(req)), <<>>)
        ELSE IF startsWithV1(req.pathname) /\ ~originCheck.ok
        THEN Answer(json(originCheck.payload, originCheck.status, apiHeaders(req)), <<>>)
        ELSE IF startsWithV1(req.pathname) /\ ~authCheck.ok
        THEN Answer(json(authCheck.payload, authCheck.status, apiHeaders(req)), <<>>)
        ELSE IF isTopics /\ req.method = "GET"
        THEN serveAsset(req, e, TopicsJsonPath)
        ELSE IF isRun /\ req.method = "POST"
        THEN IF req.body.t \in {"invalid", "none"}
             THEN Answer(json([detail |-> Detail("Invalid JSON body")], 400,
                              apiHeaders(req)), <<>>)
             ELSE IF missing # <<>>
             THEN Answer(json([detail |-> [text |-> "Missing required fields: ",
                                           fields |-> missing]], 400, apiHeaders(req)),
                         <<>>)
             ELSE serveAsset(req, e,
                             runAssetPath(lowerCase(trim(req.body.topic.s)),
                                          lowerCase(trim(req.body.lang.s)),
                                          lowerCase(trim(req.body.mode.s))))
        ELSE Answer(json([detail |-> Detail("Not found")], 404, apiHeaders(req)), <<>>)

(***************************************************************************)
(* The worker applied to bounded requests and asset stores                 *)
(***************************************************************************)
\* the text stored at a path
StoredText(path) == [text |-> path]

StoredPaths ==
    { TopicsJsonPath,
      runAssetPath(<<"a">>, <<"d", "e">>, <<"x">>),
      runAssetPath(<<"A">>, <<"d", "e">>, <<"x">>) }

EnvInputs ==
    { [ADAPTER_TOKEN |-> tok,
       ASSETS |-> [files |-> [q \in paths |-> StoredText(q)], failing |-> failing]] :
        tok \in {[t |-> "undefined", s |-> ""], [t |-> "string", s |-> ""],
                 [t |-> "string", s |-> "dev-secret"]},
        paths \in SUBSET StoredPaths,
        failing \in BOOLEAN }

OriginInputs ==
    {NoHeader, Header(""), Header(ALLOWED_ORIGIN), Header("https://evil.example")}
TokenInputs == {NoHeader, Header(""), Header("dev-secret"), Header("wrong")}
PathInputs ==
    { <<"v1", "health">>, <<"v1", "topics">>, <<"v1", "run">>, <<"v1", "other">>,
      <<"v1">>, <<"other">> }
MethodInputs == {"GET", "POST", "OPTIONS"}

RunBodyInputs ==
    { RunBody(v, r, tp, lg, m) :
        v \in {JStr(<<"v", "1">>), Undefined},
        r \in {JStr(<<"x">>), JNum(TRUE)},
        tp \in {JStr(<<"a">>), JStr(<<"A">>), JStr(<<" ", "a">>), JStr(<<"b">>),
                JStr(<<" ">>), Undefined},
        lg \in {JStr(<<"d", "e">>), JStr(<<"D", "E", " ">>), JStr(<<>>)},
        m \in {JStr(<<"x">>), JNum(TRUE)} }
    \cup {NullBody, InvalidBody}

Request(method, pathname, origin, token, body) ==
    [method |-> method, pathname |-> pathname, origin |-> origin, token |-> token,
     body |-> body]

RequestInputs ==
    { Request(method, pathname, origin, token, NoBody) :
        method \in MethodInputs, pathname \in PathInputs,
        origin \in OriginInputs, token \in TokenInputs }
    \cup { Request("POST", <<"v1", "run">>, origin, token, body) :
             origin \in OriginInputs, token \in TokenInputs, body \in RunBodyInputs }

InitWorker ==
    /\ pc = "received"
    /\ env \in EnvInputs
    /\ request \in RequestInputs
    /\ response = NoResponse
    /\ fetched = <<>>
    /\ topicsJson = NoIndex
    /\ lang = langs[1]
    /\ variantsDe = JArray(<<>>)
    /\ variantsFa = JArray(<<>>)
    /\ mergedVariants = <<>>
    /\ topicFallbackPseudo = [de |-> <<>>, fa |-> <<>>]
    /\ explainDoc = NoDoc
    /\ examDoc = NoExamDoc
    /\ payload = NullPayload
    /\ sourceTree = <<>>
    /\ runDir = [exists |-> FALSE, files |-> EmptyFiles, dirs |-> {}]
    /\ topics = <<>>
    /\ topicIdx = 0
    /\ writtenFiles = <<>>
    /\ includedTopics = {}
    /\ skipped = <<>>
    /\ runs = 0
    /\ history = <<>>

\* fetch(request, env)
HandleRequest ==
    /\ pc = "received"
    /\ response' = handleRequest(request, env).response
    /\ fetched' = handleRequest(request, env).fetched
    /\ pc' = "answered"
    /\ UNCHANGED <<env, request, topicsJson, loopVars, reportVars, sourceTree, runDir,
                   runs, history>>

NextWorker == HandleRequest

SpecWorker == InitWorker /\ [][NextWorker]_vars

(***************************************************************************)
(* Properties of the topic index generator                                 *)
(***************************************************************************)
IndexTopics == {topicsJson.topics[i] : i \in 1..Len(topicsJson.topics)}

\* the topics list has no duplicates and ascends
TopicsAscend ==
    \A i \in 1..(Len(topicsJson.topics) - 1) :
        nameCompare(topicsJson.topics[i], topicsJson.topics[i + 1]) < 0

\* the names of the regular files of the output directory
RegularFileNames == DOMAIN runDir.files

\* C11 as stated: the topics are the first components of the file names that
\* split into exactly four components, whatever the components are
C11_TopicsOfFourComponentNames ==
    pc = "indexed" =>
        /\ IndexTopics = {<<n[1]>> : n \in {m \in RegularFileNames : Len(m) = 4}}
        /\ TopicsAscend

\* a name of the shape the generator accepts
IsAssetName(n) ==
    /\ Len(n) = 4
    /\ n[1] # "" /\ n[2] # "" /\ n[3] # ""
    /\ n[4] = "json"

\* C11 amended: the topics are the first components of the names of the
\* regular files that split into exactly four components of which the first
\* three are not empty and the fourth is json, without duplicates, ascending
C11_TopicsOfAssetNames ==
    pc = "indexed" =>
        /\ IndexTopics = {<<n[1]>> : n \in {m \in RegularFileNames : IsAssetName(m)}}
        /\ TopicsAscend

\* two files of topic a, one of topic b, a file with another extension and a
\* directory named like an asset were indexed
C11_Witness ==
    /\ pc = "indexed"
    /\ {<<"a", "de", "exam", "json">>, <<"a", "fa", "exam", "json">>,
        <<"b", "de", "explain", "json">>, <<"a", "de", "explain", "old">>}
          \subseteq RegularFileNames
    /\ runDir.dirs # {}
    /\ topicsJson.topics = << <<"a">>, <<"b">> >>

\* the topics for which the run wrote at least one asset file
TopicsWritten ==
    {t \in TopicSet : \E lg \in LangSet : \E mode \in Modes :
        assetFileName(t, lg, mode) \in WrittenSet}

\* C12: after a run of the driver and a run of the index generator the
\* topics of the index are the topics for which the driver wrote a file
C12_IndexListsWrittenTopics ==
    pc = "indexed" => IndexTopics = TopicsWritten

\* the non-empty components a topic, a language or a mode can be
Components == {Collation[i] : i \in 2..Len(Collation)}

AvailabilityTopics ==
    {topicsJson.availability[i].topic : i \in 1..Len(topicsJson.availability)}

\* the modes listed under availability[tpc][lg], as a set of list positions
ModeLists(tpc, lg) ==
    {e.modes : e \in {x \in UNION {{a.langs[j] : j \in 1..Len(a.langs)} :
                                      a \in {b \in {topicsJson.availability[i] :
                                                      i \in 1..Len(topicsJson.availability)} :
                                                b.topic = tpc}} :
                        x.lang = lg}}

ModesListed(tpc, lg) == UNION {{l[i] : i \in 1..Len(l)} : l \in ModeLists(tpc, lg)}

AllModeLists ==
    UNION {{topicsJson.availability[i].langs[j].modes :
               j \in 1..Len(topicsJson.availability[i].langs)} :
           i \in 1..Len(topicsJson.availability)}

Answered == pc = "answered"

OriginAllowed == request.origin.t = "string" /\ request.origin.s = ALLOWED_ORIGIN

TokenConfigured == env.ADAPTER_TOKEN.t = "string" /\ env.ADAPTER_TOKEN.s # ""

\* the X-Adapter-Token header equals the configured non-empty ADAPTER_TOKEN
TokenValid ==
    /\ TokenConfigured
    /\ request.token.t = "string"
    /\ request.token.s = env.ADAPTER_TOKEN.s

Authorized == OriginAllowed /\ TokenValid

IsPreflight ==
    request.method = "OPTIONS" /\ request.pathname \in {<<"v1", "topics">>, <<"v1", "run">>}
IsHealth == request.method = "GET" /\ request.pathname = <<"v1", "health">>
IsV1Path == Len(request.pathname) >= 2 /\ request.pathname[1] = "v1"
IsRunPost == request.method = "POST" /\ request.pathname = <<"v1", "run">>
IsTopicsGet == request.method = "GET" /\ request.pathname = <<"v1", "topics">>

DetailIs(text) == response.body = [stringify |-> [detail |-> [text |-> text, fields |-> <<>>]]]

\* a field of the request body that is a non-blank string
IsGiven(value) == value.t = "string" /\ NonBlank(value.s)

\* the body names an api_version, request_id, topic, lang and mode
NamesAllFields ==
    /\ request.body.t = "object"
    /\ IsGiven(request.body.api_version) /\ IsGiven(request.body.request_id)
    /\ IsGiven(request.body.topic) /\ IsGiven(request.body.lang)
    /\ IsGiven(request.body.mode)

Stored(path) == path \in DOMAIN env.ASSETS.files
StoreAnswers == ~env.ASSETS.failing

\* <topic>.<lang>.<mode>.json for the values as the request gives them
RequestedFile ==
    runAssetPath(request.body.topic.s, request.body.lang.s, request.body.mode.s)

\* the three values without surrounding white space and in lower case
NormalizedFile ==
    runAssetPath(lowerCase(trim(request.body.topic.s)), lowerCase(trim(request.body.lang.s)),
                 lowerCase(trim(request.body.mode.s)))

ServesTopicsJson ==
    (Authorized /\ IsTopicsGet /\ StoreAnswers /\ Stored(TopicsJsonPath)) =>
        /\ response.status = 200
        /\ response.body = env.ASSETS.files[TopicsJsonPath]

IsGuarded == IsV1Path /\ ~IsHealth /\ ~IsPreflight

\* C15: an asset is fetched, and /v1/topics or /v1/run answered 200, only for
\* a valid token; a guarded request from the allowed origin gets 401 for a
\* missing or wrong token and 500 when ADAPTER_TOKEN is missing; without a
\* valid token only the health check and the preflight succeed
C15_TokenGuardsAssets ==
    Answered =>
        /\ fetched # <<>> => TokenValid
        /\ (response.status = 200
            /\ request.pathname \in {<<"v1", "topics">>, <<"v1", "run">>}) => TokenValid
        /\ (IsGuarded /\ OriginAllowed /\ TokenConfigured /\ ~TokenValid) =>
              /\ response.status = 401
              /\ DetailIs("Unauthorized")
        /\ (IsGuarded /\ OriginAllowed /\ ~TokenConfigured) => response.status = 500
        /\ (~TokenValid /\ response.status < 400) => (IsHealth \/ IsPreflight)

\* a complete run request for a stored file, from the allowed origin but
\* with a wrong token, was answered 401 and nothing was fetched
C15_Witness ==
    /\ Answered
    /\ OriginAllowed /\ TokenConfigured
    /\ request.token = Header("wrong")
    /\ IsRunPost /\ NamesAllFields /\ Stored(NormalizedFile) /\ StoreAnswers
    /\ response.status = 401
    /\ fetched = <<>>

LacksAField == request.body.t \in {"object", "null"} /\ ~NamesAllFields

C18_Preflight ==
    Answered =>
        ((IsPreflight /\ OriginAllowed) =>
            /\ response.status = 204
            /\ response.headers.AccessControlAllowOrigin = "https://barakzai.cloud"
            /\ response.headers.Vary = "Origin"
            /\ response.headers.AccessControlAllowMethods = "GET,POST,OPTIONS"
            /\ \E i \in 1..Len(response.headers.AccessControlAllowHeaders) :
                  response.headers.AccessControlAllowHeaders[i] = "X-Adapter-Token"
            /\ response.headers.AccessControlMaxAge = "86400")

\* a preflight without a token, to a worker without ADAPTER_TOKEN
C18_Witness ==
    /\ Answered
    /\ IsPreflight /\ OriginAllowed
    /\ request.token = NoHeader
    /\ ~TokenConfigured
    /\ response.status = 204

(***************************************************************************)
(* Properties of the summary of an explain asset                           *)
(***************************************************************************)
IsExplainAsset == pc = "built" /\ payload.schema_name = "tutor_asset.explain.v1"

IsText(value) == value.t = "string" /\ NonBlank(value.s)

\* the first non-blank of three values, without its surrounding white space
FirstNonBlank(first, second, third) ==
    IF IsText(first) THEN trim(first.s)
    ELSE IF IsText(second) THEN trim(second.s)
    ELSE IF IsText(third) THEN trim(third.s)
    ELSE <<>>

\* the sections whose id is exactly "definition"
DefinitionSections ==
    {i \in 1..Len(DocSections) :
        DocSections[i].id.t = "string" /\ DocSections[i].id.s = DefinitionId}

FirstBlockText ==
    IF payload.blocks = <<>> THEN Undefined ELSE JStr(payload.blocks[1].text)

\* C19: the summary is the first non-blank of the body of a section whose id
\* is exactly "definition", the text of the first block of the asset and the
\* audience field, and is empty only when all three are blank or absent
C19_Summary ==
    IsExplainAsset =>
        IF DefinitionSections = {}
        THEN payload.summary = FirstNonBlank(Undefined, FirstBlockText, explainDoc.audience)
        ELSE \E i \in DefinitionSections :
                /\ payload.summary
                   = FirstNonBlank(DocSections[i].body, FirstBlockText, explainDoc.audience)
                /\ payload.summary = <<>> =>
                      /\ ~IsText(DocSections[i].body)
                      /\ ~IsText(FirstBlockText)
                      /\ ~IsText(explainDoc.audience)

\* the definition section is blank, so the summary is the text of the first
\* block although an audience is given
C19_Witness ==
    /\ IsExplainAsset
    /\ DefinitionSections # {}
    /\ \A i \in DefinitionSections : ~IsText(DocSections[i].body)
    /\ IsText(explainDoc.audience)
    /\ payload.blocks # <<>>
    /\ payload.summary = <<"z">>

\* no section of the document has a non-blank body text
NoBodyText == \A i \in 1..Len(DocSections) : ~IsText(DocSections[i].body)

\* C20 as stated: an asset is returned for every document, and for a
\* document without body text its block list and its summary are empty
C20_EmptyBlocksAndSummary ==
    pc = "built" =>
        /\ payload.schema_name = "tutor_asset.explain.v1"
        /\ NoBodyText => (payload.blocks = <<>> /\ payload.summary = <<>>)

\* C20 amended: for a document without body text the block list is empty
\* and the summary is the audience field, empty when that is blank or absent
C20_EmptyBlocksAudienceSummary ==
    pc = "built" =>
        /\ payload.schema_name = "tutor_asset.explain.v1"
        /\ NoBodyText =>
              /\ payload.blocks = <<>>
              /\ payload.summary
                 = (IF IsText(explainDoc.audience) THEN trim(explainDoc.audience.s) ELSE <<>>)

\* a document with sections, none with body text, and with an audience
C20_Witness ==
    /\ pc = "built"
    /\ Len(DocSections) >= 2
    /\ NoBodyText
    /\ payload.blocks = <<>>
    /\ payload.summary = <<"u">>

(***************************************************************************)
(* Properties of is_default and of the order of the merged variants        *)
(***************************************************************************)
\* the positions of a variants file whose object item carries the id
RecordsWith(file, id) ==
    LET items == arrayOrEmpty(file)
    IN  {i \in 1..Len(items) :
            /\ items[i].t = "object"
            /\ items[i].id.t = "string"
            /\ trim(items[i].id.s) = id}

MarkedDefault(file, i) == arrayOrEmpty(file)[i].is_default.b

SomeMarkedDefault(file, id) == \E i \in RecordsWith(file, id) : MarkedDefault(file, i)

LastMarkedDefault(file, id) ==
    \E i \in RecordsWith(file, id) :
        /\ \A j \in RecordsWith(file, id) : j <= i
        /\ MarkedDefault(file, i)

\* the variants of the asset that were built from a merged record
MergedEntries ==
    {i \in 1..Len(payload.variants) :
        \E j \in 1..Len(mergedVariants) : mergedVariants[j].id = payload.variants[i].id}

RECURSIVE CarriedIdsOf(_)
CarriedIdsOf(items) ==
    IF items = <<>> THEN <<>>
    ELSE LET item == Head(items)
         IN  (IF item.t = "object" /\ item.id.t = "string" /\ NonBlank(item.id.s)
              THEN <<trim(item.id.s)>> ELSE <<>>)
             \o CarriedIdsOf(Tail(items))

CarriedIdSeq(file) == CarriedIdsOf(arrayOrEmpty(file))

\* a sequence of ids without the later occurrences of an id
FirstOccurrences(ids) ==
    LET firsts == {i \in 1..Len(ids) : \A j \in 1..(i - 1) : ids[j] # ids[i]}
        RECURSIVE Pick(_)
        Pick(i) == IF i > Len(ids) THEN <<>>
                   ELSE (IF i \in firsts THEN <<ids[i]>> ELSE <<>>) \o Pick(i + 1)
    IN  Pick(1)

Occurs(id, ids) == \E i \in 1..Len(ids) : ids[i] = id

MergedIds == [i \in 1..Len(mergedVariants) |-> mergedVariants[i].id]

\* C22: the merged sequence lists the ids of the de list in de-list order,
\* then the ids that occur only in the fa list in fa-list order, each id at
\* the position of its first occurrence
C22_FirstSeenOrder ==
    pc = "merged" =>
        LET deIds == FirstOccurrences(CarriedIdSeq(variantsDe))
            faIds == FirstOccurrences(CarriedIdSeq(variantsFa))
            faOnly(id) == ~Occurs(id, deIds)
        IN  MergedIds = deIds \o SelectSeq(faIds, faOnly)

\* an id is repeated in the de list and occurs in the fa list too, between
\* two ids that occur only in the fa list
C22_Witness ==
    /\ pc = "merged"
    /\ CarriedIdSeq(variantsDe) = << <<"a">>, <<"b">>, <<"a">> >>
    /\ CarriedIdSeq(variantsFa) = << <<"c">>, <<"a">>, <<"c">> >>
    /\ MergedIds = << <<"a">>, <<"b">>, <<"c">> >>

(***************************************************************************)
(* Properties of the failures that end a run                               *)
(***************************************************************************)
\* C23: a run ends aborted only when the output directory could not be
\* created or cleared; no other failing filesystem operation stops it
C23_AbortOnlyOnOutputDir ==
    pc = "aborted" => history.abortedAt \in {"mkdir", "rm"}

(***************************************************************************)
(* Properties of the explanation fields of an exam asset                   *)
(***************************************************************************)
\* the first non-blank of the solution and the expected field of a question
ExplanationOf(question) ==
    IF question.solution.t = "string" /\ NonBlank(question.solution.s)
    THEN trim(question.solution.s)
    ELSE IF question.expected.t = "string" /\ NonBlank(question.expected.s)
         THEN trim(question.expected.s)
         ELSE <<>>

\* the explanation fields the claim gives a question in an asset of language L
ClaimedDe(question) == IF lang = "de" THEN ExplanationOf(question) ELSE <<>>
ClaimedFa(question) == IF lang = "fa" THEN ExplanationOf(question) ELSE <<>>

\* C24: the explanation field of the asset's language is the first non-blank
\* of the question's solution and expected, that of the other language is
\* empty, and both are empty for a language that is neither de nor fa
C24_Explanation ==
    (pc = "built" /\ payload.schema_name = "tutor_asset.exam.v1") =>
        /\ \A j \in 1..Len(payload.questions) :
              \E i \in 1..Len(RawQuestions) :
                 /\ IsUsable(RawQuestions[i])
                 /\ trim(RawQuestions[i].id.s) = payload.questions[j].id
                 /\ payload.questions[j].explain_de = ClaimedDe(RawQuestions[i])
                 /\ payload.questions[j].explain_fa = ClaimedFa(RawQuestions[i])
        /\ \A i \in 1..Len(RawQuestions) :
              IsUsable(RawQuestions[i]) =>
                 \E j \in 1..Len(payload.questions) :
                    /\ trim(RawQuestions[i].id.s) = payload.questions[j].id
                    /\ payload.questions[j].explain_de = ClaimedDe(RawQuestions[i])
                    /\ payload.questions[j].explain_fa = ClaimedFa(RawQuestions[i])

\* a Persian asset whose questions carry a solution beside an expected
\* value, and only an expected value
C24_Witness ==
    /\ pc = "built"
    /\ lang = "fa"
    /\ Len(payload.questions) = 2
    /\ payload.questions[1].explain_fa = <<"s">>
    /\ payload.questions[2].explain_fa = <<"e">>
    /\ payload.questions[1].explain_de = <<>>
    /\ \A i \in 1..Len(RawQuestions) : RawQuestions[i].expected.t = "string"

(***************************************************************************)
(* Properties of the section sequence of an explain document               *)
(***************************************************************************)
\* how often a section object of the document occurs in a section sequence
Occurrences(section, sequence) ==
    Cardinality({j \in 1..Len(sequence) : sequence[j].ref = section.ref})

\* C25: the section sequence computed for a document is a permutation of its
\* object-valued sections: each of them occurs in it exactly once
C25_SectionsPermutation ==
    pc = "built" =>
        LET ordered == getExplainSectionsInOrder(explainDoc)
        IN  /\ Len(ordered) = Len(DocSections)
            /\ \A i \in 1..Len(DocSections) : Occurrences(DocSections[i], ordered) = 1

\* C25 holds of the documents whose order list repeats no id, also when
\* several sections share an id (not a claim: the cases the code gets right)
C25_OnDistinctOrder ==
    (\A i, j \in 1..Len(DocIdOrder) : i # j => DocIdOrder[i] # DocIdOrder[j])
    => C25_SectionsPermutation

====
